---- MODULE Spec2Model ----
(***************************************************************************)
(* Ledger store and override/classification engine of pumpkin-stats.       *)
(*                                                                         *)
(* Text values (dates, descriptions, account labels) are sequences of      *)
(* one-character strings so that upper(), strip(), len() and substring     *)
(* search are computed as the code computes them.  Amounts are integer     *)
(* cents.  Timestamps are a logical clock that advances by one with every  *)
(* call that opens a database connection for writing.                      *)
(***************************************************************************)
EXTENDS Integers, Sequences, FiniteSets, Bags, TLC

VARIABLES
    transactions,   \* the transactions table: id -> row
    clock,          \* CURRENT_TIMESTAMP of the next write
    csv,            \* the uploaded file as pd.read_csv hands it over, with its account name
    file,           \* the candidate batch of the uploaded file
    ingested,       \* history: how many times insert_transactions(file) has returned
    before,         \* history: classification of a record when an override was applied to it
    last,           \* the last call and what it returned
    conns           \* the connections of the insert_transactions calls that run side by side

vars == <<transactions, clock, csv, file, ingested, before, last, conns>>

(***************************************************************************)
(* Bounds of the model.                                                    *)
(***************************************************************************)
MaxClock == 3
MaxBatch == 2

NULL == "NULL"

(***************************************************************************)
(* Text helpers.                                                           *)
(***************************************************************************)
UpperMap ==
    "a" :> "A" @@ "b" :> "B" @@ "c" :> "C" @@ "d" :> "D" @@ "e" :> "E" @@
    "f" :> "F" @@ "g" :> "G" @@ "h" :> "H" @@ "i" :> "I" @@ "j" :> "J" @@
    "k" :> "K" @@ "l" :> "L" @@ "m" :> "M" @@ "n" :> "N" @@ "o" :> "O" @@
    "p" :> "P" @@ "q" :> "Q" @@ "r" :> "R" @@ "s" :> "S" @@ "t" :> "T" @@
    "u" :> "U" @@ "v" :> "V" @@ "w" :> "W" @@ "x" :> "X" @@ "y" :> "Y" @@
    "z" :> "Z"

Upper(s) == [i \in 1..Len(s) |-> IF s[i] \in DOMAIN UpperMap THEN UpperMap[s[i]] ELSE s[i]]

Contains(s, p) == \E i \in 1..(Len(s) - Len(p) + 1) : SubSeq(s, i, i + Len(p) - 1) = p

IsBlank(s) == \A i \in 1..Len(s) : s[i] = " "

Digit == {"0", "1", "2", "3", "4", "5", "6", "7", "8", "9"}

DigitText == <<"0", "1", "2", "3", "4", "5", "6", "7", "8", "9">>

RECURSIVE IntText(_)
IntText(n) == IF n < 10 THEN <<DigitText[n + 1]>>
              ELSE IntText(n \div 10) \o <<DigitText[(n % 10) + 1]>>

Month02(m) == IF m < 10 THEN <<"0">> \o IntText(m) ELSE IntText(m)

Lower(s) ==
    [i \in 1..Len(s) |->
        IF \E c \in DOMAIN UpperMap : UpperMap[c] = s[i]
        THEN CHOOSE c \in DOMAIN UpperMap : UpperMap[c] = s[i]
        ELSE s[i]]

RECURSIVE LStrip(_)
LStrip(s) == IF s # <<>> /\ s[1] = " " THEN LStrip(Tail(s)) ELSE s

RECURSIVE RStrip(_)
RStrip(s) == IF s # <<>> /\ s[Len(s)] = " " THEN RStrip(SubSeq(s, 1, Len(s) - 1)) ELSE s

Strip(s) == RStrip(LStrip(s))

\* s.replace(c, "") for every c of chars
Remove(s, chars) == SelectSeq(s, LAMBDA c : c \notin chars)

StartsWith(s, p) == Len(s) >= Len(p) /\ SubSeq(s, 1, Len(p)) = p

IsDigits(s) == \A i \in 1..Len(s) : s[i] \in Digit

DigitValue(c) == CHOOSE n \in 0..9 : DigitText[n + 1] = c

RECURSIVE DigitsValue(_)
DigitsValue(s) ==
    IF s = <<>> THEN 0
    ELSE DigitsValue(SubSeq(s, 1, Len(s) - 1)) * 10 + DigitValue(s[Len(s)])

(***************************************************************************)
(* Text constants of the model's inputs.                                   *)
(***************************************************************************)
DATE_MAR == <<"2", "0", "2", "4", "-", "0", "3", "-", "0", "5">>
DATE_APR == <<"2", "0", "2", "4", "-", "0", "4", "-", "1", "7">>
DATE_SLASH == <<"3", "/", "5", "/", "2", "0", "2", "4">>
DATE_SHORT == <<"2", "4", "-", "3", "-", "5">>

DESC_PAYROLL == <<"D", "i", "r", "e", "c", "t", " ", "D", "e", "p", " ", "9", "/", "1">>
DESC_AMAZON == <<"A", "M", "A", "Z", "O", "N", ".", "C", "O", "M">>
DESC_SHELL == <<"S", "H", "E", "L", "L", " ", "G", "A", "S", " ", "#", "1", "2", "3">>
DESC_EPAY == <<"C", "R", "E", "D", "I", "T", " ", "C", "R", "D", " ", "E", "P", "A", "Y">>
DESC_BLANK == <<" ", " ">>
DESC_EMPTY == <<>>

ACCT_BANK == <<"J", "o", "i", "n", "t", " ", "B", "a", "n", "k">>
ACCT_CARD == <<"D", "a", "r", "a", " ", "c", "r", "e", "d", "i", "t">>

(***************************************************************************)
(* Candidate amounts.  kind is the Python type of txn["amount"]; form is   *)
(* the shape of its text: "int" is 45, "float" is 45.0, "padded" is 45.00, *)
(* "garbage" is text float() rejects, "nan" is float("nan").               *)
(***************************************************************************)
Amt(kind, form, cents) == [kind |-> kind, form |-> form, cents |-> cents]

F(cents) == Amt("float", "float", cents)

IsNaN(a) == a.form = "nan"

\* bool(txn.get("amount")): a number is falsy when zero (NaN is not zero),
\* a text when empty
AmountTruthy(a) == IF a.kind \in {"int", "float"} /\ ~IsNaN(a) THEN a.cents # 0 ELSE TRUE

\* float(txn["amount"]) succeeds
FloatParses(a) == a.form # "garbage"

Abs(n) == IF n < 0 THEN -n ELSE n

\* f"{amount}" as it enters the id
AmountText(a) == <<a.form, a.cents>>

AmountLimit == 100000000

Has(txn, field) == field \in DOMAIN txn

\* bool(txn.get(field)) for the four required fields
FieldTruthy(txn, field) ==
    /\ Has(txn, field)
    /\ IF field = "amount" THEN AmountTruthy(txn.amount) ELSE txn[field] # <<>>

validate_transaction(txn) ==
    /\ \A field \in {"date", "description", "amount", "account"} : FieldTruthy(txn, field)
    /\ FloatParses(txn.amount)
    /\ ~(~IsNaN(txn.amount) /\ Abs(txn.amount.cents) > AmountLimit)
    /\ ~(Len(txn.date) < 8 \/ ~Contains(txn.date, <<"-">>))
    /\ ~IsBlank(txn.description)

generate_transaction_id(date, description, amount, account) ==
    <<date, description, AmountText(amount), account>>

TxnId(txn) == generate_transaction_id(txn.date, txn.description, txn.amount, txn.account)


(***************************************************************************)
(* Rows of the transactions table.  The first twelve columns are those of  *)
(* CREATE TABLE; the INSERT names seven of them and the rest take their    *)
(* column defaults.  OverrideColumns are the four columns the override     *)
(* engine reads and writes.                                                *)
(***************************************************************************)
OverrideColumns ==
    [auto_exclude_reason |-> NULL, manual_override_type |-> NULL,
     override_reason |-> NULL, override_category |-> NULL]

InsertedRow(txn, now) ==
    [date |-> txn.date,
     description |-> txn.description,
     amount |-> txn.amount.cents,
     account |-> txn.account,
     category |-> IF Has(txn, "category") THEN txn.category ELSE "Other",
     raw_description |-> IF Has(txn, "raw_description") THEN txn.raw_description
                         ELSE txn.description,
     category_source |-> "auto",
     exclude_from_budget |-> 0,
     manual_notes |-> NULL,
     created_at |-> now,
     updated_at |-> now] @@ OverrideColumns

\* exclude_from_budget holds 0 or 1 when the modules wrote it.  A ledger
\* written by other hands can hold NULL or bytes in the column; the two
\* numbers below stand for these two values and are read only through
\* IsFlagNull, IsFlagBytes and the tests `= 0` and `= 1`, which both values fail.
FlagNull == -1
FlagBytes == -2

IsFlagNull(val) == val = FlagNull
IsFlagBytes(val) == val = FlagBytes

\* COALESCE(exclude_from_budget, 0)
Coalesce0(val) == IF IsFlagNull(val) THEN 0 ELSE val

EmptyTable == [id \in {} |-> NULL]

(***************************************************************************)
(* insert_transactions: the loop over the batch inside one connection.     *)
(* A NaN amount passes validate_transaction and is bound as NULL, which    *)
(* the NOT NULL column refuses: the IntegrityError leaves the with-block,  *)
(* __exit__ closes without commit and the rows of this call are lost.      *)
(***************************************************************************)
\* mutant: the existence check is skipped
RowExistsNever(rows, txn_id) == FALSE

\* SELECT id FROM transactions WHERE id = ? finds a row
RowExists(rows, txn_id) == txn_id \in DOMAIN rows

RECURSIVE InsertLoop(_, _, _, _, _)
InsertLoop(rows, txns, i, new_count, now) ==
    IF i > Len(txns) THEN [rows |-> rows, new_count |-> new_count, error |-> FALSE]
    ELSE LET txn == txns[i] IN
         IF ~validate_transaction(txn) THEN InsertLoop(rows, txns, i + 1, new_count, now)
         ELSE IF RowExists(rows, TxnId(txn)) THEN InsertLoop(rows, txns, i + 1, new_count, now)
         ELSE IF IsNaN(txn.amount) THEN [rows |-> rows, new_count |-> new_count, error |-> TRUE]
         ELSE InsertLoop(rows @@ (TxnId(txn) :> InsertedRow(txn, now)),
                         txns, i + 1, new_count + 1, now)

NoId == <<>>
NoCsv == [format |-> "none"]
NoSnapshot == [id |-> NoId]
NoConns == <<>>

\* target says whether the id an update call was given was stored when the
\* call was made ("none" for a call that takes no id)
Call(op, ret, count, target) ==
    [op |-> op, ret |-> ret, count |-> count, target |-> target]

Target(rows, id) == IF id \in DOMAIN rows THEN "stored" ELSE "missing"

insert_transactions ==
    /\ clock < MaxClock
    /\ LET r == InsertLoop(transactions, file, 1, 0, clock) IN
       IF r.error
       THEN /\ transactions' = transactions
            /\ ingested' = ingested
            /\ last' = Call("insert_transactions", "IntegrityError", 0, "none")
       ELSE /\ transactions' = r.rows
            /\ ingested' = ingested + 1
            /\ last' = Call("insert_transactions", "returned", r.new_count, "none")
    /\ clock' = clock + 1
    /\ before' = NoSnapshot
    /\ UNCHANGED <<csv, file, conns>>

(***************************************************************************)
(* The four update calls.  Each is one UPDATE ... WHERE id = ? and returns *)
(* cursor.rowcount > 0.                                                    *)
(***************************************************************************)
Bool(b) == IF b THEN "True" ELSE "False"

\* mutant: success = cursor.rowcount >= 0
RowsMatchedAlways(rows, id) == TRUE

\* cursor.rowcount > 0 after UPDATE ... WHERE id = ?
RowsMatched(rows, id) == id \in DOMAIN rows

Exists(id) == RowsMatched(transactions, id)

\* UPDATE transactions SET <fields of upd> WHERE id = ?
UpdateWhereId(rows, id, upd) ==
    [i \in DOMAIN rows |->
        IF i = id
        THEN [c \in DOMAIN rows[i] |-> IF c \in DOMAIN upd THEN upd[c] ELSE rows[i][c]]
        ELSE rows[i]]

\* mutant: the edit also zeroes the amount
update_transaction_category_set_amount(new_category, now) ==
    [category |-> new_category, category_source |-> "manual", updated_at |-> now, amount |-> 0]

update_transaction_category_set(new_category, now) ==
    [category |-> new_category, category_source |-> "manual", updated_at |-> now]

\* the SET list update_transaction_override builds; None leaves a column out
update_transaction_override_set(exclude_from_budget, manual_notes, new_category, now) ==
    (IF exclude_from_budget # "None"
     THEN [exclude_from_budget |-> IF exclude_from_budget = "True" THEN 1 ELSE 0]
     ELSE EmptyTable)
    @@ (IF manual_notes # "None" THEN [manual_notes |-> manual_notes] ELSE EmptyTable)
    @@ (IF new_category # "None"
        THEN [category |-> new_category, category_source |-> "manual"]
        ELSE EmptyTable)
    @@ [updated_at |-> now]

\* mutant: the override also rewrites the automatic signal and the legacy flag
apply_manual_override_set_retag(override_type, reason, override_category, now) ==
    [manual_override_type |-> override_type, override_reason |-> reason,
     override_category |-> override_category, updated_at |-> now,
     auto_exclude_reason |-> NULL,
     exclude_from_budget |-> IF override_type = "exclude" THEN 1 ELSE 0]

apply_manual_override_set(override_type, reason, override_category, now) ==
    [manual_override_type |-> override_type, override_reason |-> reason,
     override_category |-> override_category, updated_at |-> now]

remove_manual_override_set(now) ==
    [manual_override_type |-> NULL, override_reason |-> NULL, updated_at |-> now]

OverrideTypes == {"include", "exclude"}
OverrideCategories == {"spending", "income"}

\* mutant: the category is not checked
apply_manual_override_valid_type_only(override_type, override_category) ==
    override_type \in OverrideTypes

\* what apply_manual_override checks before it opens a connection
apply_manual_override_valid(override_type, override_category) ==
    /\ override_type \in OverrideTypes
    /\ override_category \in OverrideCategories


(***************************************************************************)
(* Classification queries.  A query result is the set of ids of its rows.  *)
(***************************************************************************)
\* SQLite reads YYYY-MM-DD; strftime() of any other text is NULL
IsIsoDate(d) ==
    /\ Len(d) = 10
    /\ d[5] = "-" /\ d[8] = "-"
    /\ \A i \in {1, 2, 3, 4, 6, 7, 9, 10} : d[i] \in Digit

StrftimeYear(d) == IF IsIsoDate(d) THEN SubSeq(d, 1, 4) ELSE <<NULL>>
StrftimeMonth(d) == IF IsIsoDate(d) THEN SubSeq(d, 6, 7) ELSE <<NULL>>

\* WHERE strftime('%Y', date) = str(year) AND strftime('%m', date) = f"{month:02d}"
InMonth(row, year, month) ==
    /\ StrftimeYear(row.date) = IntText(year)
    /\ StrftimeMonth(row.date) = Month02(month)

\* mutant: the automatic signal is tested before the manual decision
effective_exclude_auto_first(row) ==
    IF row.auto_exclude_reason # NULL THEN 1
    ELSE IF row.manual_override_type = "include" THEN 0
    ELSE IF row.manual_override_type = "exclude" THEN 1
    ELSE row.exclude_from_budget

\* mutant: the legacy flag is not consulted
effective_exclude_no_legacy(row) ==
    IF row.manual_override_type = "include" THEN 0
    ELSE IF row.manual_override_type = "exclude" THEN 1
    ELSE IF row.auto_exclude_reason # NULL THEN 1
    ELSE 0

\* the CASE expression of get_effective_transactions
effective_exclude(row) ==
    IF row.manual_override_type = "include" THEN 0
    ELSE IF row.manual_override_type = "exclude" THEN 1
    ELSE IF row.auto_exclude_reason # NULL THEN 1
    ELSE row.exclude_from_budget

get_effective_transactions(rows, year, month) ==
    {id \in DOMAIN rows : InMonth(rows[id], year, month)}

get_budget_transactions(rows, year, month) ==
    {id \in get_effective_transactions(rows, year, month) : effective_exclude(rows[id]) = 0}

get_excluded_transactions(rows, year, month) ==
    {id \in get_effective_transactions(rows, year, month) : effective_exclude(rows[id]) = 1}

income_patterns ==
    {<<"P", "A", "Y", "R", "O", "L", "L">>,
     <<"D", "I", "R", "E", "C", "T", " ", "D", "E", "P">>,
     <<"D", "I", "R", "E", "C", "T", "D", "E", "P">>,
     <<"R", "E", "I", "M", "B", "U", "R", "S">>,
     <<"R", "E", "F", "U", "N", "D">>,
     <<"C", "A", "S", "H", "B", "A", "C", "K">>,
     <<"C", "A", "S", "H", " ", "B", "A", "C", "K">>,
     <<"G", "I", "F", "T">>,
     <<"B", "O", "N", "U", "S">>,
     <<"I", "N", "T", "E", "R", "E", "S", "T">>}

SmallCreditLimit == 10000

(***************************************************************************)
(* A DataFrame cut from one query result is the bag of the ids of its      *)
(* rows: a row of the table occurs once in a selection, and as often as    *)
(* it was put in after pd.concat.                                          *)
(***************************************************************************)
Frame(ids) == SetToBag(ids)

concat(a, b) == a (+) b

\* mutant: the duplicates stay
drop_duplicates_none(frame) == frame

drop_duplicates(frame) == SetToBag(BagToSet(frame))

RECURSIVE SumOver(_, _, _)
SumOver(rows, frame, ids) ==
    IF ids = {} THEN 0
    ELSE LET id == CHOOSE x \in ids : TRUE IN
         rows[id].amount * CopiesIn(id, frame) + SumOver(rows, frame, ids \ {id})

\* frame["amount"].sum()
AmountSum(rows, frame) == SumOver(rows, frame, BagToSet(frame))

legitimate_income(rows, ids) ==
    {id \in ids : /\ rows[id].amount > 0
                  /\ \E p \in income_patterns : Contains(Upper(rows[id].description), p)}

credit_card_income(rows, ids) ==
    {id \in ids : /\ rows[id].amount > 0
                  /\ Contains(Upper(rows[id].account), <<"C", "R", "E", "D", "I", "T">>)
                  /\ rows[id].amount < SmallCreditLimit}

\* the frame _apply_income_whitelist returns for the rows `ids` of `rows`
apply_income_whitelist_frame(rows, ids) ==
    LET legitimate == legitimate_income(rows, ids)
        credit_card == credit_card_income(rows, ids)
    IN  IF legitimate # {} /\ credit_card # {}
        THEN drop_duplicates(concat(Frame(legitimate), Frame(credit_card)))
        ELSE IF legitimate # {} THEN Frame(legitimate)
        ELSE IF credit_card # {} THEN Frame(credit_card)
        ELSE EmptyBag

\* the ids of the rows of _apply_income_whitelist
apply_income_whitelist(rows, ids) == BagToSet(apply_income_whitelist_frame(rows, ids))

\* mutant: a record tagged income counts whatever its override type
manual_income_by_category(rows, ids) ==
    {id \in ids : rows[id].override_category = "income"}

manual_income(rows, ids) ==
    {id \in ids : /\ rows[id].override_category = "income"
                  /\ rows[id].manual_override_type = "include"}

get_filtered_income_frame(rows, year, month) ==
    LET budget_transactions == get_budget_transactions(rows, year, month)
        positive_transactions == {id \in budget_transactions : rows[id].amount > 0}
        whitelist_income == apply_income_whitelist_frame(rows, positive_transactions)
        manual == manual_income(rows, positive_transactions)
    IN  IF whitelist_income # EmptyBag /\ manual # {}
        THEN drop_duplicates(concat(whitelist_income, Frame(manual)))
        ELSE IF whitelist_income # EmptyBag THEN whitelist_income
        ELSE IF manual # {} THEN Frame(manual)
        ELSE EmptyBag

\* the ids of the rows of get_filtered_income_transactions
get_filtered_income_transactions(rows, year, month) ==
    BagToSet(get_filtered_income_frame(rows, year, month))

\* mutant: the manually marked records are not taken out
get_pending_income_overrides_whitelist_only(rows, year, month) ==
    LET budget_transactions == get_budget_transactions(rows, year, month)
        positive_transactions == {id \in budget_transactions : rows[id].amount > 0}
    IN  positive_transactions \ apply_income_whitelist(rows, positive_transactions)

get_pending_income_overrides(rows, year, month) ==
    LET budget_transactions == get_budget_transactions(rows, year, month)
        positive_transactions == {id \in budget_transactions : rows[id].amount > 0}
        excluded_ids == apply_income_whitelist(rows, positive_transactions)
                            \cup manual_income(rows, positive_transactions)
    IN  positive_transactions \ excluded_ids

\* final_totals of get_calculation_breakdown
get_calculation_breakdown(rows, year, month) ==
    LET budget_transactions == get_budget_transactions(rows, year, month)
        spending == AmountSum(rows, Frame({id \in budget_transactions : rows[id].amount < 0}))
        income_transactions == get_filtered_income_frame(rows, year, month)
        income == IF income_transactions # EmptyBag
                  THEN AmountSum(rows, income_transactions) ELSE 0
    IN  [final_totals |-> [spending |-> Abs(spending), income |-> income,
                           net |-> income + spending]]

(***************************************************************************)
(* finance_calculations: the household totals, computed from category and  *)
(* the exclude_from_budget flag of the month's rows.                       *)
(***************************************************************************)
get_transactions_by_month(rows, year, month) ==
    {id \in DOMAIN rows : InMonth(rows[id], year, month)}

\* normalize_value of _normalize_boolean_column on the values the column holds
normalize_value(val) ==
    IF IsFlagNull(val) \/ IsFlagBytes(val) THEN FALSE ELSE val # 0

TransferCategories == {"Transfers", "Credit Card Payment"}

\* amount < 0 (sign = -1) or amount > 0 (sign = 1), not a transfer category,
\* not flagged exclude_from_budget
household_rows(rows, ids, sign) ==
    {id \in ids : /\ rows[id].amount * sign > 0
                  /\ rows[id].category \notin TransferCategories
                  /\ ~normalize_value(rows[id].exclude_from_budget)}

household_income_patterns ==
    {<<"P", "A", "Y", "R", "O", "L", "L">>,
     <<"D", "I", "R", "E", "C", "T", " ", "D", "E", "P">>,
     <<"D", "I", "R", "E", "C", "T", "D", "E", "P">>,
     <<"R", "E", "I", "M", "B", "U", "R", "S">>,
     <<"R", "E", "F", "U", "N", "D">>,
     <<"C", "A", "S", "H", "B", "A", "C", "K">>,
     <<"C", "A", "S", "H", " ", "B", "A", "C", "K">>,
     <<"G", "I", "F", "T">>,
     <<"B", "O", "N", "U", "S">>,
     <<"I", "N", "T", "E", "R", "E", "S", "T">>}

get_household_finances(rows, year, month) ==
    LET transactions_df == get_transactions_by_month(rows, year, month)
        spending_transactions == household_rows(rows, transactions_df, -1)
        spending == Abs(AmountSum(rows, Frame(spending_transactions)))
        income_transactions == household_rows(rows, transactions_df, 1)
        legitimate ==
            {id \in income_transactions :
                \E p \in household_income_patterns :
                    Contains(Upper(rows[id].description), p)}
        credit_card ==
            {id \in income_transactions :
                /\ Contains(Upper(rows[id].account), <<"C", "R", "E", "D", "I", "T">>)
                /\ rows[id].amount < SmallCreditLimit}
        all_income == drop_duplicates(concat(Frame(legitimate), Frame(credit_card)))
        income == AmountSum(rows, all_income)
    IN  IF transactions_df = {}
        THEN [spending |-> 0, income |-> 0, net |-> 0]
        ELSE [spending |-> spending, income |-> income, net |-> income - spending]

\* mutant: the totals keep the sign of the amounts
category_spending_signed(rows, spending_transactions) ==
    {[category |-> c,
      total_spent |->
          AmountSum(rows, Frame({id \in spending_transactions : rows[id].category = c})),
      transaction_count |->
          Cardinality({id \in spending_transactions : rows[id].category = c})] :
        c \in {rows[id].category : id \in spending_transactions}}

\* groupby("category").agg: one row per category of the spending rows
category_spending(rows, spending_transactions) ==
    {[category |-> c,
      total_spent |->
          Abs(AmountSum(rows, Frame({id \in spending_transactions : rows[id].category = c}))),
      transaction_count |->
          Cardinality({id \in spending_transactions : rows[id].category = c})] :
        c \in {rows[id].category : id \in spending_transactions}}

\* sort_values("total_spent", ascending=False); rows with equal totals come
\* in an order the sort does not fix
RECURSIVE sort_values(_)
sort_values(frame) ==
    IF frame = {} THEN <<>>
    ELSE LET top == CHOOSE r \in frame : \A q \in frame : q.total_spent <= r.total_spent
         IN  <<top>> \o sort_values(frame \ {top})

\* get_spending_by_category of finance_calculations: an empty frame when the
\* month has no record or no spending record
get_spending_by_category(rows, year, month) ==
    sort_values(category_spending(rows,
        household_rows(rows, get_transactions_by_month(rows, year, month), -1)))

\* the windows the model queries
Years == {2024}
Months == {3, 4}

\* where a record stands in the reports of the window that holds it
Classification(rows, id) ==
    [effective_exclude |-> effective_exclude(rows[id]),
     budget |-> \E y \in Years, m \in Months : id \in get_budget_transactions(rows, y, m),
     income |-> \E y \in Years, m \in Months : id \in get_filtered_income_transactions(rows, y, m),
     pending |-> \E y \in Years, m \in Months : id \in get_pending_income_overrides(rows, y, m)]


(***************************************************************************)
(* trend_analysis.  get_monthly_trends binds conn to what get_connection() *)
(* returns, the DatabaseConnection context manager itself (it is not       *)
(* entered), and calls conn.execute on it.  The trailing window is taken   *)
(* to hold every month of the model.                                       *)
(***************************************************************************)
\* the attributes of a DatabaseConnection object
DatabaseConnectionAttributes ==
    {"conn", "__init__", "__enter__", "__exit__", "_create_tables", "_insert_default_categories"}

\* the spending and income columns of the query, for one row
trend_columns(row) ==
    [spending |->
        IF /\ row.amount < 0
           /\ row.category \notin TransferCategories
           /\ Coalesce0(row.exclude_from_budget) = 0
        THEN Abs(row.amount) ELSE 0,
     income |->
        IF /\ row.amount > 0
           /\ row.category \notin TransferCategories
           /\ Coalesce0(row.exclude_from_budget) = 0
           /\ \/ \E p \in household_income_patterns : Contains(Upper(row.description), p)
              \/ /\ Contains(Upper(row.account), <<"C", "R", "E", "D", "I", "T">>)
                 /\ row.amount < SmallCreditLimit
        THEN row.amount ELSE 0]

\* .agg({"spending": "sum", "income": "sum"}) over the rows ids
RECURSIVE trend_sum(_, _, _)
trend_sum(rows, ids, column) ==
    IF ids = {} THEN 0
    ELSE LET id == CHOOSE x \in ids : TRUE IN
         trend_columns(rows[id])[column] + trend_sum(rows, ids \ {id}, column)

\* one row of monthly_summary
trend_month(rows, year, month, ids) ==
    [year |-> year, month |-> month,
     spending |-> trend_sum(rows, ids, "spending"),
     income |-> trend_sum(rows, ids, "income"),
     net |-> trend_sum(rows, ids, "income") - trend_sum(rows, ids, "spending")]

\* groupby(["year", "month"]) of the rows the query returns
monthly_summary(rows) ==
    {trend_month(rows, w[1], w[2], get_transactions_by_month(rows, w[1], w[2])) :
        w \in {v \in Years \X Months : get_transactions_by_month(rows, v[1], v[2]) # {}}}

get_monthly_trends(rows) ==
    IF "execute" \notin DatabaseConnectionAttributes
    THEN [raised |-> "AttributeError"]
    ELSE [raised |-> "none", monthly_summary |-> monthly_summary(rows)]


(***************************************************************************)
(* Inputs of the calls.                                                    *)
(***************************************************************************)
MissingId == <<DATE_APR, DESC_EMPTY, <<"float", 0>>, ACCT_BANK>>

TargetIds == DOMAIN transactions \cup {MissingId}

CategoryInputs == {"Groceries"}
NotesInputs == {"checked"}
FlagInputs == {"True", "False"}
TypeInputs == OverrideTypes \cup {"maybe"}
OverrideCategoryInputs == OverrideCategories \cup {"savings"}
ReasonInputs == {"User manually included"}

(***************************************************************************)
(* The calls.                                                              *)
(***************************************************************************)
update_transaction_category(transaction_id, new_category) ==
    /\ clock < MaxClock
    /\ transactions' = UpdateWhereId(transactions, transaction_id,
                           update_transaction_category_set(new_category, clock))
    /\ last' = Call("update_transaction_category", Bool(Exists(transaction_id)), 0,
                  Target(transactions, transaction_id))
    /\ clock' = clock + 1
    /\ before' = NoSnapshot
    /\ UNCHANGED <<csv, file, ingested, conns>>

update_transaction_override(transaction_id, exclude_from_budget, manual_notes, new_category) ==
    /\ clock < MaxClock
    /\ IF exclude_from_budget = "None" /\ manual_notes = "None" /\ new_category = "None"
       THEN \* if not updates: return False
            /\ transactions' = transactions
            /\ last' = Call("update_transaction_override", "False", 0,
                             Target(transactions, transaction_id))
       ELSE /\ transactions' = UpdateWhereId(transactions, transaction_id,
                                   update_transaction_override_set(
                                       exclude_from_budget, manual_notes, new_category, clock))
            /\ last' = Call("update_transaction_override", Bool(Exists(transaction_id)), 0,
                             Target(transactions, transaction_id))
    /\ clock' = clock + 1
    /\ before' = NoSnapshot
    /\ UNCHANGED <<csv, file, ingested, conns>>

apply_manual_override(transaction_id, override_type, reason, override_category) ==
    /\ clock < MaxClock
    /\ IF ~apply_manual_override_valid(override_type, override_category)
       THEN /\ transactions' = transactions
            /\ last' = Call("apply_manual_override", "ValueError", 0,
                             Target(transactions, transaction_id))
            /\ before' = NoSnapshot
       ELSE /\ transactions' = UpdateWhereId(transactions, transaction_id,
                                   apply_manual_override_set(
                                       override_type, reason, override_category, clock))
            /\ last' = Call("apply_manual_override", Bool(Exists(transaction_id)), 0,
                             Target(transactions, transaction_id))
            /\ before' = IF /\ Exists(transaction_id)
                            /\ transactions[transaction_id].manual_override_type = NULL
                         THEN [id |-> transaction_id,
                               class |-> Classification(transactions, transaction_id)]
                         ELSE NoSnapshot
    /\ clock' = clock + 1
    /\ UNCHANGED <<csv, file, ingested, conns>>

remove_manual_override(transaction_id) ==
    /\ clock < MaxClock
    /\ transactions' = UpdateWhereId(transactions, transaction_id,
                           remove_manual_override_set(clock))
    /\ last' = Call("remove_manual_override", Bool(Exists(transaction_id)), 0,
                  Target(transactions, transaction_id))
    /\ before' = IF before.id = transaction_id THEN before ELSE NoSnapshot
    /\ clock' = clock + 1
    /\ UNCHANGED <<csv, file, ingested, conns>>

(***************************************************************************)
(* reclassify_transfers: one UPDATE over every row whose description holds *)
(* a payment or transfer keyword and whose category is not yet Transfers.  *)
(***************************************************************************)
\* credit_payment_keywords + transfer_keywords
reclassify_keywords ==
    {<<"C", "A", "R", "D", " ", "S", "E", "R", "V">>,
     <<"C", "R", "E", "D", "I", "T", " ", "C", "R", "D">>,
     <<"E", "P", "A", "Y">>,
     <<"E", "-", "P", "A", "Y", "M", "E", "N", "T">>,
     <<"O", "N", "L", "I", "N", "E", " ", "P", "M", "T">>,
     <<"A", "U", "T", "O", " ", "P", "M", "T">>,
     <<"P", "A", "Y", "M", "E", "N", "T", " ", "T", "H", "A", "N", "K", " ", "Y", "O", "U">>,
     <<"O", "N", "L", "I", "N", "E", " ", "T", "R", "A", "N", "S", "F", "E", "R">>,
     <<"X", "F", "E", "R", " ", "T", "R", "A", "N", "S", "F", "E", "R">>,
     <<"R", "E", "C", "U", "R", "R", "I", "N", "G", " ", "T", "R", "A", "N", "S", "F", "E", "R">>,
     <<"T", "R", "A", "N", "S", "F", "E", "R", " ", "T", "O">>,
     <<"T", "R", "A", "N", "S", "F", "E", "R", " ", "F", "R", "O", "M">>}

\* (UPPER(description) LIKE '%keyword%' OR ...) AND category != 'Transfers'
reclassify_where(row) ==
    /\ \E keyword \in reclassify_keywords : Contains(Upper(row.description), keyword)
    /\ row.category # "Transfers"

reclassify_transfers ==
    /\ clock < MaxClock
    /\ transactions' =
            [id \in DOMAIN transactions |->
                IF reclassify_where(transactions[id])
                THEN [transactions[id] EXCEPT !.category = "Transfers",
                                              !.category_source = "auto"]
                ELSE transactions[id]]
    /\ last' = Call("reclassify_transfers", "returned",
                  Cardinality({id \in DOMAIN transactions :
                                  reclassify_where(transactions[id])}),
                  "none")
    /\ clock' = clock + 1
    /\ before' = NoSnapshot
    /\ UNCHANGED <<csv, file, ingested, conns>>

(***************************************************************************)
(* Candidate records, as the parsers hand them to the store.               *)
(***************************************************************************)
Candidate(date, description, amount, account, category) ==
    [date |-> date, description |-> description, amount |-> amount, account |-> account,
     category |-> category, auto_exclude_reason |-> NULL, raw_description |-> description]

Without(txn, field) == [k \in DOMAIN txn \ {field} |-> txn[k]]

cShell == Candidate(DATE_MAR, DESC_SHELL, F(-4500), ACCT_BANK, "Automotive")
cEpay == Candidate(DATE_MAR, DESC_EPAY, F(-50000), ACCT_BANK, "Transfers")
cAmazon == Candidate(DATE_MAR, DESC_AMAZON, F(4500), ACCT_BANK, "Shopping")
cPayroll == Candidate(DATE_MAR, DESC_PAYROLL, F(250000), ACCT_BANK, "Income")
cCardSmall == Candidate(DATE_APR, DESC_AMAZON, F(4500), ACCT_CARD, "Shopping")
cCardLarge == Candidate(DATE_APR, DESC_AMAZON, F(15000), ACCT_CARD, "Shopping")
cBadDate == Candidate(DATE_SLASH, DESC_PAYROLL, F(250000), ACCT_BANK, "Income")

(***************************************************************************)
(* data_ingestion: the cells of the DataFrame pd.read_csv returns.  An     *)
(* empty field is NaN, a field of a numeric column is a float, any other   *)
(* field is text; row.get() of a column the frame lacks is its default.    *)
(* Amounts in the files of the model have at most two decimals.            *)
(***************************************************************************)
NaN == [kind |-> "nan"]
None == [kind |-> "none"]
Text(t) == [kind |-> "str", text |-> t]
Num(cents) == [kind |-> "float", cents |-> cents]

\* pd.isna(value)
isna(cell) == cell.kind \in {"nan", "none"}

\* bool(value)
Truthy(cell) ==
    CASE cell.kind = "nan" -> TRUE
      [] cell.kind = "none" -> FALSE
      [] cell.kind = "str" -> cell.text # <<>>
      [] cell.kind = "float" -> cell.cents # 0

\* repr of a float with at most two decimals: 45.0, 45.5, 45.05
FloatText(cents) ==
    LET a == Abs(cents)
        frac == a % 100
    IN  (IF cents < 0 THEN <<"-">> ELSE <<>>)
        \o IntText(a \div 100) \o <<".">>
        \o (IF frac % 10 = 0 THEN IntText(frac \div 10)
            ELSE IF frac < 10 THEN <<"0">> \o IntText(frac)
            ELSE IntText(frac))

\* str(value)
Str(cell) ==
    CASE cell.kind = "nan" -> <<"n", "a", "n">>
      [] cell.kind = "none" -> <<"N", "o", "n", "e">>
      [] cell.kind = "str" -> cell.text
      [] cell.kind = "float" -> FloatText(cell.cents)

\* the value of the digits before and after the decimal point
FloatValue(whole, frac, negative) ==
    IF IsDigits(whole) /\ IsDigits(frac) /\ Len(whole) + Len(frac) > 0 /\ Len(frac) <= 2
    THEN [ok |-> TRUE,
          amount |-> F((IF negative THEN -1 ELSE 1)
                        * (DigitsValue(whole) * 100
                            + DigitsValue(frac) * (IF Len(frac) = 1 THEN 10 ELSE 1)))]
    ELSE [ok |-> FALSE]

\* the digits before and after the decimal point at position dot
FloatDigits(body, dot, negative) ==
    FloatValue(SubSeq(body, 1, dot - 1), SubSeq(body, dot + 1, Len(body)), negative)

\* the text without its surrounding blanks and its sign
FloatBody(body, negative) ==
    IF Lower(body) = <<"n", "a", "n">> THEN [ok |-> TRUE, amount |-> Amt("float", "nan", 0)]
    ELSE IF Cardinality({i \in 1..Len(body) : body[i] = "."}) > 1 THEN [ok |-> FALSE]
    ELSE IF \E i \in 1..Len(body) : body[i] = "."
         THEN FloatDigits(body, CHOOSE i \in 1..Len(body) : body[i] = ".", negative)
         ELSE FloatDigits(body, Len(body) + 1, negative)

FloatSigned(t) ==
    IF t # <<>> /\ t[1] \in {"-", "+"} THEN FloatBody(Tail(t), t[1] = "-")
    ELSE FloatBody(t, FALSE)

\* float(text): ok is FALSE where Python raises ValueError
float(text) == FloatSigned(Strip(text))

\* float(str(value).replace(",", "").replace("$", ""))
float_of(cell) == float(Remove(Str(cell), {",", "$"}))

Neg(a) == IF IsNaN(a) THEN a ELSE F(-a.cents)

\* -float(...) where float() did not raise
Negated(parsed) == IF parsed.ok THEN [ok |-> TRUE, amount |-> Neg(parsed.amount)] ELSE parsed

Positive(a) == ~IsNaN(a) /\ a.cents > 0

DaysIn(month, year) ==
    IF month \in {4, 6, 9, 11} THEN 30
    ELSE IF month # 2 THEN 31
    ELSE IF year % 4 = 0 /\ (year % 100 # 0 \/ year % 400 = 0) THEN 29
    ELSE 28

Pad2(s) == IF Len(s) = 1 THEN <<"0">> \o s ELSE s

\* strptime(date_str, "%m/%d/%Y") of the three fields of the text, printed
\* with strftime("%Y-%m-%d"); date_str as it is when strptime raises
strptime_fields(date_str, m, d, y) ==
    IF /\ IsDigits(m) /\ Len(m) \in {1, 2} /\ DigitsValue(m) \in 1..12
       /\ IsDigits(y) /\ Len(y) = 4 /\ DigitsValue(y) >= 1
       /\ IsDigits(d) /\ Len(d) \in {1, 2}
       /\ DigitsValue(d) \in 1..DaysIn(DigitsValue(m), DigitsValue(y))
    THEN y \o <<"-">> \o Pad2(m) \o <<"-">> \o Pad2(d)
    ELSE date_str

strptime_split(date_str, first, second) ==
    strptime_fields(date_str, SubSeq(date_str, 1, first - 1),
                    SubSeq(date_str, first + 1, second - 1),
                    SubSeq(date_str, second + 1, Len(date_str)))

Slashes(date_str) == {i \in 1..Len(date_str) : date_str[i] = "/"}

\* _parse_date
parse_date(date_str) ==
    IF Cardinality(Slashes(date_str)) = 2
    THEN strptime_split(date_str,
                        CHOOSE i \in Slashes(date_str) : \A j \in Slashes(date_str) : i <= j,
                        CHOOSE i \in Slashes(date_str) : \A j \in Slashes(date_str) : i >= j)
    ELSE date_str

ContainsAny(s, words) == \E w \in words : Contains(s, w)

\* CategoryMapper.STANDARD_CATEGORIES, in the order of the dict
STANDARD_CATEGORIES ==
    <<[standard |-> "Food & drink",
       keywords |-> {<<"f", "o", "o", "d">>,
                    <<"d", "r", "i", "n", "k">>,
                    <<"r", "e", "s", "t", "a", "u", "r", "a", "n", "t">>,
                    <<"b", "a", "r">>,
                    <<"c", "o", "f", "f", "e", "e">>,
                    <<"d", "i", "n", "i", "n", "g">>}],
      [standard |-> "Groceries",
       keywords |-> {<<"g", "r", "o", "c", "e", "r", "y">>,
                    <<"g", "r", "o", "c", "e", "r", "i", "e", "s">>,
                    <<"s", "u", "p", "e", "r", "m", "a", "r", "k", "e", "t">>,
                    <<"m", "a", "r", "k", "e", "t">>,
                    <<"f", "o", "o", "d", " ", "s", "t", "o", "r", "e">>}],
      [standard |-> "Automotive",
       keywords |-> {<<"g", "a", "s">>,
                    <<"f", "u", "e", "l">>,
                    <<"g", "a", "s", "o", "l", "i", "n", "e">>,
                    <<"s", "h", "e", "l", "l">>,
                    <<"e", "x", "x", "o", "n">>,
                    <<"b", "p">>,
                    <<"c", "h", "e", "v", "r", "o", "n">>,
                    <<"a", "u", "t", "o", "m", "o", "t", "i", "v", "e">>,
                    <<"a", "u", "t", "o">>,
                    <<"o", "i", "l", " ", "c", "h", "a", "n", "g", "e">>,
                    <<"r", "e", "p", "a", "i", "r">>,
                    <<"m", "e", "c", "h", "a", "n", "i", "c">>,
                    <<"c", "a", "r", " ", "w", "a", "s", "h">>,
                    <<"p", "a", "r", "k", "i", "n", "g">>}],
      [standard |-> "Pumpkin",
       keywords |-> {<<"p", "e", "t">>,
                    <<"v", "e", "t">>,
                    <<"v", "e", "t", "e", "r", "i", "n", "a", "r", "y">>,
                    <<"d", "o", "g">>,
                    <<"a", "n", "i", "m", "a", "l">>,
                    <<"p", "e", "t", "c", "o">>,
                    <<"p", "e", "t", "s", "m", "a", "r", "t">>}],
      [standard |-> "Shopping",
       keywords |-> {<<"s", "h", "o", "p", "p", "i", "n", "g">>,
                    <<"r", "e", "t", "a", "i", "l">>,
                    <<"s", "t", "o", "r", "e">>,
                    <<"m", "e", "r", "c", "h", "a", "n", "d", "i", "s", "e">>,
                    <<"a", "m", "a", "z", "o", "n">>,
                    <<"t", "a", "r", "g", "e", "t">>}],
      [standard |-> "Bills & utilities",
       keywords |-> {<<"u", "t", "i", "l", "i", "t", "y">>,
                    <<"u", "t", "i", "l", "i", "t", "i", "e", "s">>,
                    <<"e", "l", "e", "c", "t", "r", "i", "c">>,
                    <<"w", "a", "t", "e", "r">>,
                    <<"i", "n", "t", "e", "r", "n", "e", "t">>,
                    <<"p", "h", "o", "n", "e">>,
                    <<"c", "a", "b", "l", "e">>}],
      [standard |-> "Travel",
       keywords |-> {<<"t", "r", "a", "v", "e", "l">>,
                    <<"h", "o", "t", "e", "l">>,
                    <<"a", "i", "r", "l", "i", "n", "e">>,
                    <<"f", "l", "i", "g", "h", "t">>,
                    <<"u", "b", "e", "r">>,
                    <<"l", "y", "f", "t">>,
                    <<"t", "a", "x", "i">>}],
      [standard |-> "Health & wellness",
       keywords |-> {<<"h", "e", "a", "l", "t", "h">>,
                    <<"m", "e", "d", "i", "c", "a", "l">>,
                    <<"p", "h", "a", "r", "m", "a", "c", "y">>,
                    <<"d", "o", "c", "t", "o", "r">>,
                    <<"h", "o", "s", "p", "i", "t", "a", "l">>,
                    <<"f", "i", "t", "n", "e", "s", "s">>,
                    <<"g", "y", "m">>}],
      [standard |-> "Entertainment",
       keywords |-> {<<"e", "n", "t", "e", "r", "t", "a", "i", "n", "m", "e", "n", "t">>,
                    <<"m", "o", "v", "i", "e">>,
                    <<"s", "t", "r", "e", "a", "m", "i", "n", "g">>,
                    <<"n", "e", "t", "f", "l", "i", "x">>,
                    <<"s", "p", "o", "t", "i", "f", "y">>,
                    <<"g", "a", "m", "e", "s">>}],
      [standard |-> "Fees & adjustments",
       keywords |-> {<<"f", "e", "e">>,
                    <<"f", "e", "e", "s">>,
                    <<"a", "d", "j", "u", "s", "t", "m", "e", "n", "t">>,
                    <<"o", "v", "e", "r", "d", "r", "a", "f", "t">>,
                    <<"l", "a", "t", "e">>,
                    <<"a", "n", "n", "u", "a", "l">>}],
      [standard |-> "Income",
       keywords |-> {<<"p", "a", "y", "r", "o", "l", "l">>,
                    <<"s", "a", "l", "a", "r", "y">>,
                    <<"d", "e", "p", "o", "s", "i", "t">>,
                    <<"i", "n", "c", "o", "m", "e">>,
                    <<"r", "e", "f", "u", "n", "d">>,
                    <<"c", "a", "s", "h", "b", "a", "c", "k">>}],
      [standard |-> "Other",
       keywords |-> {}]>>

\* the entries of the table whose keywords hold the text, and those with a
\* keyword the text contains
DirectHits(category_lower) ==
    {i \in 1..Len(STANDARD_CATEGORIES) : category_lower \in STANDARD_CATEGORIES[i].keywords}

FuzzyHits(category_lower) ==
    {i \in 1..Len(STANDARD_CATEGORIES) :
        \E keyword \in STANDARD_CATEGORIES[i].keywords : Contains(category_lower, keyword)}

FirstStandard(hits) ==
    STANDARD_CATEGORIES[CHOOSE i \in hits : \A j \in hits : i <= j].standard

\* mutant: the substring pass comes first
normalize_text_fuzzy_first(category_lower) ==
    IF FuzzyHits(category_lower) # {} THEN FirstStandard(FuzzyHits(category_lower))
    ELSE "Other"

normalize_text(category_lower) ==
    IF DirectHits(category_lower) # {} THEN FirstStandard(DirectHits(category_lower))
    ELSE IF FuzzyHits(category_lower) # {} THEN FirstStandard(FuzzyHits(category_lower))
    ELSE "Other"

\* CategoryMapper.normalize_category for a NaN or text category
normalize_category(category) ==
    IF ~Truthy(category) \/ isna(category) THEN "Other"
    ELSE normalize_text(Strip(Lower(category.text)))

\* column names the parsers read
COL_DATE == <<"D", "a", "t", "e">>
COL_TYPE == <<"T", "r", "a", "n", "s", "a", "c", "t", "i", "o", "n", " ", "T", "y", "p", "e">>
COL_DESCRIPTION == <<"D", "e", "s", "c", "r", "i", "p", "t", "i", "o", "n">>
COL_DEBIT == <<"D", "e", "b", "i", "t">>
COL_CREDIT == <<"C", "r", "e", "d", "i", "t">>
COL_AMOUNT == <<"A", "m", "o", "u", "n", "t">>
COL_TRANSACTION_DATE == <<"T", "r", "a", "n", "s", "a", "c", "t", "i", "o", "n", " ", "D", "a", "t", "e">>
COL_TRANS_DATE == <<"T", "r", "a", "n", "s", ".", " ", "D", "a", "t", "e">>
COL_CATEGORY == <<"C", "a", "t", "e", "g", "o", "r", "y">>

\* row.get(name, default) on a row of a frame with the given columns
Get(columns, row, name, default) ==
    IF \E i \in 1..Len(columns) : columns[i] = name
    THEN row[CHOOSE i \in 1..Len(columns) : columns[i] = name]
    ELSE default

detect_format(df) ==
    LET columns == {Strip(Lower(df.columns[i])) : i \in 1..Len(df.columns)} IN
    IF <<"d", "e", "b", "i", "t">> \in columns /\ <<"c", "r", "e", "d", "i", "t">> \in columns THEN "bank"
    ELSE IF /\ <<"a", "m", "o", "u", "n", "t">> \in columns
            /\ \/ <<"t", "r", "a", "n", "s", "a", "c", "t", "i", "o", "n", " ", "d", "a", "t", "e">> \in columns
               \/ <<"t", "r", "a", "n", "s", ".", " ", "d", "a", "t", "e">> \in columns
         THEN "credit_card"
    ELSE IF Len(df.columns) = 5 /\ StartsWith(df.columns[1], <<"8", "/">>)
         THEN "bank_no_headers"
    ELSE "unknown"

transfer_keywords ==
    {<<"O", "N", "L", "I", "N", "E", " ", "T", "R", "A", "N", "S", "F", "E", "R">>,
     <<"R", "E", "C", "U", "R", "R", "I", "N", "G", " ", "T", "R", "A", "N", "S", "F", "E", "R">>,
     <<"X", "F", "E", "R", " ", "T", "R", "A", "N", "S", "F", "E", "R">>,
     <<"C", "R", "E", "D", "I", "T", " ", "C", "R", "D", " ", "E", "P", "A", "Y">>,
     <<"C", "A", "R", "D", " ", "S", "E", "R", "V">>,
     <<"O", "N", "L", "I", "N", "E", " ", "P", "M", "T">>,
     <<"A", "U", "T", "O", " ", "P", "M", "T">>,
     <<"D", "I", "S", "C", "O", "V", "E", "R", " ", "E", "-", "P", "A", "Y", "M", "E", "N", "T">>,
     <<"C", "H", "A", "S", "E", " ", "C", "A", "R", "D", " ", "S", "E", "R", "V">>,
     <<"C", "H", "A", "S", "E", " ", "C", "R", "E", "D", "I", "T", " ", "C", "R", "D">>}

\* mutant: the sign of the amount is not looked at before the transfer keywords
auto_categorize_bank_income_by_type(txn_type, desc_upper, amount) ==
    \/ txn_type \in {Text(<<"D", "I", "R", "E", "C", "T", "D", "E", "P">>), Text(<<"C", "R", "E", "D", "I", "T">>)}
    \/ Contains(desc_upper, <<"P", "A", "Y", "R", "O", "L", "L">>)

\* the three tests of _auto_categorize_bank that return ("Income", None)
auto_categorize_bank_income(txn_type, desc_upper, amount) ==
    \/ txn_type \in {Text(<<"D", "I", "R", "E", "C", "T", "D", "E", "P">>), Text(<<"C", "R", "E", "D", "I", "T">>)}
    \/ Contains(desc_upper, <<"P", "A", "Y", "R", "O", "L", "L">>)
    \/ /\ Contains(desc_upper, <<"Z", "E", "L", "L", "E">>) \/ Contains(desc_upper, <<"V", "E", "N", "M", "O">>)
       /\ Positive(amount)
    \/ Positive(amount)

\* _auto_categorize_bank for a text description: <<category, auto_exclude_reason>>
auto_categorize_upper(txn_type, desc_upper, amount) ==
    IF auto_categorize_bank_income(txn_type, desc_upper, amount) THEN <<"Income", NULL>>
    ELSE IF ContainsAny(desc_upper, transfer_keywords)
    THEN IF Contains(desc_upper, <<"C", "R", "E", "D", "I", "T">>) \/ Contains(desc_upper, <<"C", "A", "R", "D">>)
         THEN <<"Transfers", "credit_card_payment">>
         ELSE IF Contains(desc_upper, <<"T", "R", "A", "N", "S", "F", "E", "R">>)
         THEN <<"Transfers", "account_transfer">>
         ELSE <<"Transfers", "payment">>
    ELSE IF ContainsAny(desc_upper, {<<"G", "R", "O", "C", "E", "R", "Y">>,
                                <<"M", "A", "R", "K", "E", "T">>,
                                <<"F", "O", "O", "D">>})
    THEN <<"Groceries", NULL>>
    ELSE IF ContainsAny(desc_upper, {<<"G", "A", "S">>,
                                <<"S", "H", "E", "L", "L">>,
                                <<"E", "X", "X", "O", "N">>,
                                <<"B", "P">>,
                                <<"A", "U", "T", "O", "M", "O", "T", "I", "V", "E">>,
                                <<"A", "U", "T", "O">>})
    THEN <<"Automotive", NULL>>
    ELSE IF ContainsAny(desc_upper, {<<"V", "E", "T">>,
                                <<"P", "E", "T">>,
                                <<"P", "E", "T", "C", "O">>,
                                <<"P", "E", "T", "S", "M", "A", "R", "T">>})
    THEN <<"Pumpkin", NULL>>
    ELSE IF ContainsAny(desc_upper, {<<"R", "E", "S", "T", "A", "U", "R", "A", "N", "T">>,
                                <<"C", "O", "F", "F", "E", "E">>,
                                <<"S", "T", "A", "R", "B", "U", "C", "K", "S">>})
    THEN <<"Food & drink", NULL>>
    ELSE IF Contains(desc_upper, <<"A", "T", "M">>) \/ Contains(desc_upper, <<"W", "I", "T", "H", "D", "R", "A", "W", "A", "L">>)
    THEN <<"Other", NULL>>
    ELSE IF ContainsAny(desc_upper, {<<"E", "L", "E", "C", "T", "R", "I", "C">>,
                                <<"U", "T", "I", "L", "I", "T", "Y">>,
                                <<"W", "A", "T", "E", "R">>,
                                <<"I", "N", "T", "E", "R", "N", "E", "T">>})
    THEN <<"Bills & utilities", NULL>>
    ELSE <<"Other", NULL>>

auto_categorize_bank(txn_type, description, amount) ==
    auto_categorize_upper(txn_type, Upper(description), amount)

(***************************************************************************)
(* One iteration of a parser's loop over the rows: the row is skipped      *)
(* (continue), appended as a candidate, or raises.  description.upper()    *)
(* raises AttributeError when the description is not text.                 *)
(***************************************************************************)
Skipped == [kind |-> "continue"]
Raised == [kind |-> "raise"]
Appended(txn) == [kind |-> "append", txn |-> txn]

\* a debit or credit value the row takes its amount from
HasValue(val) == Truthy(val) /\ Strip(Str(val)) # <<>> /\ Str(val) # <<"n", "a", "n">>

\* amount after the debit and credit tests: ok is FALSE for amount = None
bank_amount(debit_val, credit_val) ==
    IF HasValue(debit_val) THEN Negated(float_of(debit_val))
    ELSE IF HasValue(credit_val) THEN float_of(credit_val)
    ELSE [ok |-> FALSE]

bank_append(date, txn_type, description, amount, account_name, categorized) ==
    Appended([date |-> parse_date(Str(date)),
              description |-> description,
              amount |-> amount,
              account |-> account_name,
              category |-> categorized[1],
              auto_exclude_reason |-> categorized[2],
              raw_description |-> Str(txn_type) \o <<":", " ">> \o description])

bank_categorize(date, txn_type, description, amount, account_name) ==
    bank_append(date, txn_type, description, amount, account_name,
                auto_categorize_bank(txn_type, description, amount))

bank_row(date, txn_type, description, parsed, account_name) ==
    IF isna(date) THEN Skipped
    ELSE IF ~parsed.ok THEN Skipped
    ELSE IF description.kind # "str" THEN Raised
    ELSE bank_categorize(date, txn_type, description.text, parsed.amount, account_name)

parse_bank_row(columns, row, account_name) ==
    bank_row(Get(columns, row, COL_DATE, None),
             Get(columns, row, COL_TYPE, Text(<<>>)),
             Get(columns, row, COL_DESCRIPTION, Text(<<>>)),
             bank_amount(Get(columns, row, COL_DEBIT, Text(<<>>)),
                         Get(columns, row, COL_CREDIT, Text(<<>>))),
             account_name)

no_headers_append(date_str, description, amount, account_name, categorized) ==
    Appended([date |-> parse_date(date_str),
              description |-> description,
              amount |-> amount,
              account |-> account_name,
              category |-> categorized[1],
              auto_exclude_reason |-> categorized[2],
              raw_description |-> description])

no_headers_row(date_str, parsed, description, account_name) ==
    IF date_str = <<>> \/ ~Contains(date_str, <<"/">>) THEN Skipped
    ELSE IF ~parsed.ok THEN Skipped
    ELSE no_headers_append(date_str, description, parsed.amount, account_name,
                           auto_categorize_bank(Text(<<"D", "E", "B", "I", "T">>),
                                                description, parsed.amount))

parse_bank_no_headers_row(columns, row, account_name) ==
    IF Len(row) < 5 THEN Skipped
    ELSE no_headers_row(Str(row[1]), float_of(row[2]), Str(row[5]), account_name)

payment_words ==
    {<<"P", "A", "Y", "M", "E", "N", "T">>,
     <<"B", "I", "L", "L", " ", "P", "A">>,
     <<"A", "U", "T", "O", "P", "A", "Y">>,
     <<"O", "N", "L", "I", "N", "E", " ", "P", "M", "T">>}

is_card_payment(amount, desc_upper) ==
    Positive(amount) /\ ContainsAny(desc_upper, payment_words)

pet_words ==
    {<<"P", "E", "T", "C", "O">>,
     <<"P", "E", "T", "S", "M", "A", "R", "T">>,
     <<"V", "E", "T">>,
     <<"A", "N", "I", "M", "A", "L", " ", "H", "O", "S", "P", "I", "T", "A", "L">>}

credit_card_append(date, description, desc_upper, amount, institution_category, account_name) ==
    IF is_card_payment(amount, desc_upper) THEN Skipped
    ELSE Appended([date |-> parse_date(Str(date)),
                   description |-> description,
                   amount |-> amount,
                   account |-> account_name,
                   category |-> IF ContainsAny(desc_upper, pet_words) THEN "Pumpkin"
                                ELSE normalize_category(institution_category),
                   auto_exclude_reason |-> NULL,
                   raw_description |-> description])

credit_card_row(date, amount_str, parsed, description, institution_category, account_name) ==
    IF amount_str = <<>> \/ amount_str = <<"n", "a", "n">> THEN Skipped
    ELSE IF ~parsed.ok THEN Raised
    ELSE IF description.kind # "str" THEN Raised
    ELSE credit_card_append(date, description.text, Upper(description.text), parsed.amount,
                            institution_category, account_name)

credit_card_amount(columns, row, date, amount_str, account_name) ==
    credit_card_row(date, amount_str, float(Remove(amount_str, {",", "$"})),
                    Get(columns, row, COL_DESCRIPTION, Text(<<>>)),
                    Get(columns, row, COL_CATEGORY, Text(<<>>)),
                    account_name)

\* col in df.columns and not pd.isna(row.get(col))
HasDate(columns, row, col) ==
    /\ \E j \in 1..Len(columns) : columns[j] = col
    /\ ~isna(Get(columns, row, col, None))

parse_credit_card_row(columns, row, account_name) ==
    IF HasDate(columns, row, COL_TRANSACTION_DATE)
    THEN credit_card_amount(columns, row, Get(columns, row, COL_TRANSACTION_DATE, None),
                            Str(Get(columns, row, COL_AMOUNT, Num(0))), account_name)
    ELSE IF HasDate(columns, row, COL_TRANS_DATE)
    THEN credit_card_amount(columns, row, Get(columns, row, COL_TRANS_DATE, None),
                            Str(Get(columns, row, COL_AMOUNT, Num(0))), account_name)
    ELSE Skipped

\* what the loop of the parser of `format` does with one row
parse_row(format, columns, row, account_name) ==
    CASE format = "bank" -> parse_bank_row(columns, row, account_name)
      [] format = "bank_no_headers" -> parse_bank_no_headers_row(columns, row, account_name)
      [] format = "credit_card" -> parse_credit_card_row(columns, row, account_name)

\* the candidate list after one iteration
Extended(transactions_, step) ==
    IF step.kind = "append" THEN Append(transactions_, step.txn) ELSE transactions_

RECURSIVE ParseLoop(_, _, _, _, _)
ParseRest(format, df, account_name, i, transactions_, step) ==
    IF step.kind = "raise" THEN [transactions |-> transactions_, error |-> TRUE]
    ELSE ParseLoop(format, df, account_name, i + 1, Extended(transactions_, step))

ParseLoop(format, df, account_name, i, transactions_) ==
    IF i > Len(df.rows) THEN [transactions |-> transactions_, error |-> FALSE]
    ELSE ParseRest(format, df, account_name, i, transactions_,
                   parse_row(format, df.columns, df.rows[i], account_name))

Returned(parsed) == IF parsed.error THEN <<>> ELSE parsed.transactions

\* process_csv_file on the frame read from the file: the candidates, and []
\* for an unknown format or when the parser raises
process_csv(df, account_name) ==
    IF detect_format(df) = "unknown" THEN <<>>
    ELSE Returned(ParseLoop(detect_format(df), df, account_name, 1, <<>>))

process_csv_file ==
    /\ clock < MaxClock
    /\ csv # NoCsv
    /\ file' = process_csv(csv.df, csv.account_name)
    /\ last' = Call("process_csv_file", "returned", Len(file'), "none")
    /\ clock' = clock + 1
    /\ before' = NoSnapshot
    /\ UNCHANGED <<transactions, csv, ingested, conns>>

(***************************************************************************)
(* Uploaded files: frames of each layout whose rows vary one field of a    *)
(* well-formed row at a time.                                              *)
(***************************************************************************)
MaxRows == 2

BankColumns == <<COL_DATE, COL_TYPE, COL_DESCRIPTION, COL_DEBIT, COL_CREDIT>>
CardColumns == <<COL_TRANSACTION_DATE, COL_DESCRIPTION, COL_CATEGORY, COL_AMOUNT>>
\* a file without a header line: pd.read_csv takes its first line for the names
HeaderlessColumns ==
    <<<<"8", "/", "2", "7", "/", "2", "0", "2", "5">>, <<"-", "1", "2", ".", "0", "0">>, <<"*">>, <<"*">>, <<"C", "O", "F", "F", "E", "E">>>>
UnknownColumns == <<<<"P", "o", "s", "t", "e", "d">>, <<"M", "e", "m", "o">>, COL_AMOUNT>>

TYPE_DEBIT == Text(<<"D", "E", "B", "I", "T">>)
TYPE_CREDIT == Text(<<"C", "R", "E", "D", "I", "T">>)
DESC_ONLINE_PMT == <<"O", "N", "L", "I", "N", "E", " ", "P", "M", "T", " ", "T", "H", "A", "N", "K", " ", "Y", "O", "U">>
DESC_XFER == <<"O", "n", "l", "i", "n", "e", " ", "T", "r", "a", "n", "s", "f", "e", "r", " ", "t", "o", " ", "S", "A", "V">>
DESC_AUTO_PMT == <<"A", "U", "T", "O", " ", "P", "M", "T", " ", "L", "O", "A", "N">>
DESC_PETCO == <<"P", "E", "T", "C", "O", " ", "1", "2", "3", "4">>
DATE_AUG == <<"8", "/", "2", "6", "/", "2", "0", "2", "5">>

\* Date, Transaction Type, Description, Debit, Credit
bankShell == <<Text(DATE_MAR), TYPE_DEBIT, Text(DESC_SHELL), Text(<<"4", "5", ".", "0", "0">>), NaN>>
bankEpay == <<Text(DATE_SLASH), TYPE_DEBIT, Text(DESC_EPAY), Num(50000), NaN>>
bankPayroll == <<Text(DATE_SLASH), Text(<<"D", "I", "R", "E", "C", "T", "D", "E", "P">>), Text(DESC_PAYROLL), NaN, Num(250000)>>

BankRows ==
    {bankShell, bankEpay, bankPayroll}
    \cup {[bankShell EXCEPT ![1] = NaN]}
    \cup {[bankShell EXCEPT ![3] = d] :
            d \in {NaN, Text(DESC_XFER), Text(DESC_AUTO_PMT), Text(DESC_EPAY)}}
    \cup {[bankShell EXCEPT ![4] = v] :
            v \in {NaN, Text(<<>>), Text(<<"a", "b", "c">>), Num(0), Text(<<"-", "4", "5", ".", "0", "0">>),
                   Text(<<"$", "1", ",", "2", "3", "4", ".", "5", "6">>)}}
    \cup {[bankPayroll EXCEPT ![5] = v] : v \in {Text(<<"a", "b", "c">>), Text(<<"2", ",", "5", "0", "0", ".", "0", "0">>)}}
    \cup {[bankPayroll EXCEPT ![2] = t, ![3] = Text(d)] :
            t \in {TYPE_DEBIT, TYPE_CREDIT, NaN}, d \in {DESC_XFER, DESC_EPAY, DESC_AMAZON}}
    \cup {[bankEpay EXCEPT ![2] = TYPE_CREDIT], [bankEpay EXCEPT ![5] = Num(50000)]}

\* Transaction Date, Description, Category, Amount
cardAmazon == <<Text(DATE_SLASH), Text(DESC_AMAZON), Text(<<"S", "h", "o", "p", "p", "i", "n", "g">>), Num(-4500)>>
cardPayment == <<Text(DATE_SLASH), Text(DESC_ONLINE_PMT), NaN, Num(50000)>>

\* the categories the tests of the mapper expect
CategoryExamples ==
    {<<<<"g", "a", "s">>, "Automotive">>,
     <<<<"G", "A", "S">>, "Automotive">>,
     <<<<"p", "a", "r", "k", "i", "n", "g">>, "Automotive">>,
     <<<<"S", "h", "e", "l", "l", " ", "G", "a", "s", " ", "S", "t", "a", "t", "i", "o", "n">>, "Automotive">>,
     <<<<"S", "u", "p", "e", "r", "m", "a", "r", "k", "e", "t", " ", "S", "h", "o", "p", "p", "i", "n", "g">>, "Groceries">>,
     <<<<"P", "e", "t", " ", "S", "t", "o", "r", "e">>, "Pumpkin">>,
     <<<<"v", "e", "t">>, "Pumpkin">>,
     <<<<"h", "o", "t", "e", "l">>, "Travel">>,
     <<<<"u", "b", "e", "r">>, "Travel">>}

\* institution categories of the uploaded card rows
CategoryTexts ==
    {e[1] : e \in CategoryExamples}
    \cup {<<"g", "r", "o", "c", "e", "r", "y">>,
          <<"G", "r", "o", "c", "e", "r", "y">>,
          <<"V", "E", "T">>,
          <<"u", "n", "k", "n", "o", "w", "n", "_", "c", "a", "t", "e", "g", "o", "r", "y">>,
          <<>>,
          <<" ", "G", "a", "s", " ">>,
          <<"f", "o", "o", "d", " ", "s", "t", "o", "r", "e">>,
          <<"F", "o", "o", "d", " ", "S", "t", "o", "r", "e", " ", "R", "e", "f", "u", "n", "d">>,
          <<" ", " ">>,
          <<"G", "a", "s", "o", "l", "i", "n", "e", " ", "&", " ", "F", "u", "e", "l">>,
          <<"s", "t", "o", "r", "e">>}

CardRows ==
    {cardAmazon, cardPayment}
    \cup {[cardAmazon EXCEPT ![3] = Text(c)] : c \in CategoryTexts}
    \cup {[cardAmazon EXCEPT ![1] = NaN], [cardAmazon EXCEPT ![2] = NaN],
          [cardAmazon EXCEPT ![2] = Text(DESC_PETCO)]}
    \cup {[cardAmazon EXCEPT ![4] = v] :
            v \in {NaN, Text(<<"a", "b", "c">>), Num(4500), Num(0), Text(<<"-", "$", "1", ",", "2", "3", "4", ".", "5", "6">>)}}
    \cup {[cardPayment EXCEPT ![4] = v] : v \in {Num(-50000), Num(0)}}
    \cup {[cardPayment EXCEPT ![2] = Text(d)] :
            d \in {<<"A", "U", "T", "O", "P", "A", "Y">>, <<"P", "a", "y", "m", "e", "n", "t", " ", "r", "e", "c", "e", "i", "v", "e", "d">>, DESC_PAYROLL}}

\* date, amount, *, *, description
plainCoffee == <<Text(DATE_AUG), Num(-4500), Text(<<"*">>), Text(<<"*">>), Text(DESC_SHELL)>>

HeaderlessRows ==
    {plainCoffee}
    \cup {[plainCoffee EXCEPT ![1] = Text(DATE_MAR)]}
    \cup {[plainCoffee EXCEPT ![2] = v] : v \in {NaN, Text(<<"a", "b", "c">>), Num(4500)}}
    \cup {[plainCoffee EXCEPT ![5] = d] : d \in {NaN, Text(DESC_EPAY)}}

UnknownRows == {<<Text(DATE_SLASH), Text(DESC_SHELL), Num(-4500)>>}

RECURSIVE Frames(_, _)
Frames(rows, n) ==
    IF n = 0 THEN {<<>>}
    ELSE LET shorter == Frames(rows, n - 1) IN
         shorter \cup {Append(f, r) : f \in {x \in shorter : Len(x) = n - 1}, r \in rows}

\* the rows that also come in files of several rows
BankTogether ==
    {bankShell, bankEpay,
     [bankShell EXCEPT ![3] = NaN],
     [bankShell EXCEPT ![3] = Text(DESC_XFER)],
     [bankShell EXCEPT ![4] = Text(<<"a", "b", "c">>)],
     [bankPayroll EXCEPT ![2] = TYPE_DEBIT, ![3] = Text(DESC_XFER)]}

CardTogether ==
    {cardAmazon, cardPayment,
     [cardAmazon EXCEPT ![2] = NaN],
     [cardAmazon EXCEPT ![4] = Text(<<"a", "b", "c">>)]}

HeaderlessTogether ==
    {plainCoffee,
     [plainCoffee EXCEPT ![2] = Text(<<"a", "b", "c">>)],
     [plainCoffee EXCEPT ![5] = NaN]}

\* header lines the detection is tried on, each with one row of its width
MarchColumns ==
    <<DATE_SLASH, <<"-", "1", "2", ".", "0", "0">>, <<"*">>, <<"*">>, <<"C", "O", "F", "F", "E", "E">>>>
ShortDateColumns == <<DATE_AUG, <<"-", "1", "2", ".", "0", "0">>, <<"*">>, <<"C", "O", "F", "F", "E", "E">>>>
FiveNameColumns == <<<<"P", "o", "s", "t", "e", "d">>, <<"M", "e", "m", "o">>, <<"*">>, <<"*">>, <<"N", "o", "t", "e">>>>
BankAmountColumns == BankColumns \o <<COL_AMOUNT, COL_TRANSACTION_DATE>>
BankPaddedColumns ==
    <<COL_DATE, COL_TYPE, COL_DESCRIPTION, <<" ", "D", "E", "B", "I", "T", " ">>, <<"c", "r", "e", "d", "i", "t">>>>
CardPaddedColumns ==
    <<<<" ", "t", "r", "a", "n", "s", "a", "c", "t", "i", "o", "n", " ", "d", "a", "t", "e">>, COL_DESCRIPTION, COL_CATEGORY, <<"A", "M", "O", "U", "N", "T", " ">>>>
CardTransColumns == <<COL_TRANS_DATE, COL_DESCRIPTION, COL_CATEGORY, COL_AMOUNT>>

DetectedCsvs ==
    {[df |-> [columns |-> MarchColumns, rows |-> <<plainCoffee>>], account_name |-> ACCT_BANK],
     [df |-> [columns |-> ShortDateColumns, rows |-> <<SubSeq(plainCoffee, 1, 4)>>], account_name |-> ACCT_BANK],
     [df |-> [columns |-> FiveNameColumns, rows |-> <<plainCoffee>>], account_name |-> ACCT_BANK],
     [df |-> [columns |-> BankAmountColumns,
              rows |-> <<bankShell \o <<Num(-4500), Text(DATE_SLASH)>>>>], account_name |-> ACCT_BANK],
     [df |-> [columns |-> BankPaddedColumns, rows |-> <<bankShell>>], account_name |-> ACCT_BANK],
     [df |-> [columns |-> CardPaddedColumns, rows |-> <<cardAmazon>>], account_name |-> ACCT_CARD],
     [df |-> [columns |-> CardTransColumns, rows |-> <<cardAmazon>>], account_name |-> ACCT_CARD]}

\* the files of one row of `rows` and of up to MaxRows rows of `together`
Upload(columns, rows, together, account_name) ==
    {[df |-> [columns |-> columns, rows |-> f], account_name |-> account_name] :
        f \in {<<r>> : r \in rows} \cup (Frames(together, MaxRows) \ {<<>>})}

UploadedCsvs ==
    Upload(BankColumns, BankRows, BankTogether, ACCT_BANK)
    \cup Upload(CardColumns, CardRows, CardTogether, ACCT_CARD)
    \cup Upload(HeaderlessColumns, HeaderlessRows, HeaderlessTogether, ACCT_BANK)
    \cup Upload(UnknownColumns, UnknownRows, UnknownRows, ACCT_BANK)
    \cup DetectedCsvs

(***************************************************************************)
(* The database file outlives the process: a run starts on the ledger the  *)
(* file already holds.  A row of it was inserted by an earlier ingestion;  *)
(* its auto_exclude_reason is any value of the column.                     *)
(***************************************************************************)
LegacyRows ==
    {<<cEpay, "credit_card_payment">>, <<cEpay, NULL>>,
     <<cAmazon, "account_transfer">>, <<cAmazon, NULL>>,
     <<cPayroll, "payment">>, <<cPayroll, NULL>>,
     <<cCardSmall, NULL>>}

LegacyRow(txn, reason) == [InsertedRow(txn, 0) EXCEPT !.auto_exclude_reason = reason]

ExistingLedgers ==
    {EmptyTable} \cup
    {TxnId(l[1]) :> LegacyRow(l[1], l[2]) : l \in LegacyRows}

UploadedFiles == {<<cBadDate, cShell, cShell>>, <<cCardLarge>>}

NoCall == Call("none", "none", 0, "none")

Init ==
    /\ transactions \in ExistingLedgers
    /\ csv = NoCsv
    /\ file \in UploadedFiles
    /\ clock = 0
    /\ ingested = 0
    /\ before = NoSnapshot
    /\ last = NoCall
    /\ conns = NoConns

Next ==
    \/ insert_transactions
    \/ \E id \in TargetIds, new_category \in CategoryInputs :
            update_transaction_category(id, new_category)
    \/ \E id \in TargetIds, exclude_from_budget \in FlagInputs \cup {"None"},
          manual_notes \in NotesInputs \cup {"None"},
          new_category \in CategoryInputs \cup {"None"} :
            update_transaction_override(id, exclude_from_budget, manual_notes, new_category)
    \/ \E id \in TargetIds, override_type \in TypeInputs, reason \in ReasonInputs,
          override_category \in OverrideCategoryInputs :
            apply_manual_override(id, override_type, reason, override_category)
    \/ \E id \in TargetIds : remove_manual_override(id)
    \/ reclassify_transfers

Spec == Init /\ [][Next]_vars


(***************************************************************************)
(* Ingestion alone, over files that vary one field of a well-formed        *)
(* candidate at a time.                                                    *)
(***************************************************************************)
\* 1,000,000.00 in cents
OneMillion == 1000000 * 100

IngestAmounts ==
    {F(-2 * OneMillion), F(-OneMillion - 1), F(-OneMillion), F(-4500), F(0),
     Amt("int", "int", 0), Amt("str", "float", 0), F(4500), Amt("int", "int", 4500),
     Amt("str", "padded", 4500), Amt("str", "garbage", 0), Amt("float", "nan", 0),
     F(OneMillion - 1), F(OneMillion), F(OneMillion + 1), F(2 * OneMillion)}

IngestCandidates ==
    {[cShell EXCEPT !.amount = a] : a \in IngestAmounts}
    \cup {[cShell EXCEPT !.date = d] : d \in {DATE_SLASH, DATE_SHORT, <<>>}}
    \cup {[cShell EXCEPT !.description = d] : d \in {DESC_EMPTY, DESC_BLANK}}
    \cup {[cShell EXCEPT !.account = <<>>]}
    \cup {Without(cShell, field) : field \in {"date", "description", "amount", "account"}}

RECURSIVE Batches(_, _)
Batches(candidates, n) ==
    IF n = 0 THEN {<<>>}
    ELSE LET shorter == Batches(candidates, n - 1) IN
         shorter \cup {Append(b, c) : b \in {x \in shorter : Len(x) = n - 1}, c \in candidates}

InitIngest ==
    /\ transactions = EmptyTable
    /\ csv = NoCsv
    /\ file \in Batches(IngestCandidates, MaxBatch) \ {<<>>}
    /\ clock = 0
    /\ ingested = 0
    /\ before = NoSnapshot
    /\ last = NoCall
    /\ conns = NoConns

NextIngest == insert_transactions

SpecIngest == InitIngest /\ [][NextIngest]_vars


(***************************************************************************)
(* The override controls of a month: get_override_candidates, and what     *)
(* _render_override_controls lists of its two frames.  A frame is the set  *)
(* of the ids of its rows.                                                 *)
(***************************************************************************)
get_override_candidates(rows, year, month) ==
    [auto_excluded |->
        {id \in DOMAIN rows :
            /\ InMonth(rows[id], year, month)
            /\ rows[id].auto_exclude_reason # NULL
            /\ rows[id].manual_override_type = NULL},
     auto_included |->
        {id \in DOMAIN rows :
            /\ InMonth(rows[id], year, month)
            /\ rows[id].auto_exclude_reason = NULL
            /\ rows[id].manual_override_type = NULL
            /\ rows[id].exclude_from_budget = 0}]

\* mutant: every auto-included row is offered for exclusion
spending_transactions_any_sign(rows, auto_included) == auto_included

\* auto_included[auto_included["amount"] < 0]
spending_transactions(rows, auto_included) == {id \in auto_included : rows[id].amount < 0}

\* the rows under "Include in budget" and under "Exclude from budget"
override_controls(rows, candidates) ==
    [could_be_included |-> candidates.auto_excluded,
     could_be_excluded |-> spending_transactions(rows, candidates.auto_included)]

render_override_controls(current_year, current_month) ==
    /\ clock < MaxClock
    /\ last' = Call("render_override_controls",
                    override_controls(transactions,
                        get_override_candidates(transactions, current_year, current_month)),
                    0, <<current_year, current_month>>)
    /\ clock' = clock + 1
    /\ UNCHANGED <<transactions, csv, file, ingested, before, conns>>

\* the ledgers the controls are opened on: rows as ingestion stored them
ReviewRows ==
    {<<cShell, NULL>>, <<cPayroll, NULL>>, <<cEpay, "credit_card_payment">>, <<cCardSmall, NULL>>}

ReviewLedgers ==
    {TxnId(a[1]) :> LegacyRow(a[1], a[2]) @@ TxnId(b[1]) :> LegacyRow(b[1], b[2]) :
        a \in ReviewRows, b \in ReviewRows}

InitReview ==
    /\ transactions \in ReviewLedgers
    /\ csv = NoCsv
    /\ file = <<>>
    /\ clock = 0
    /\ ingested = 0
    /\ before = NoSnapshot
    /\ last = NoCall
    /\ conns = NoConns

NextReview ==
    \/ \E y \in Years, m \in Months : render_override_controls(y, m)
    \/ \E id \in TargetIds, override_type \in OverrideTypes, override_category \in OverrideCategories :
            apply_manual_override(id, override_type, "User manually included", override_category)
    \/ \E id \in TargetIds : remove_manual_override(id)
    \/ \E id \in TargetIds, exclude_from_budget \in FlagInputs :
            update_transaction_override(id, exclude_from_budget, "None", "None")

SpecReview == InitReview /\ [][NextReview]_vars


(***************************************************************************)
(* A ledger of legacy data: the exclude_from_budget column of a stored row *)
(* holds NULL or bytes instead of 0 or 1.                                  *)
(***************************************************************************)
LegacyFlags == {0, FlagNull, FlagBytes}

LegacyFlagRow(txn, flag) == [LegacyRow(txn, NULL) EXCEPT !.exclude_from_budget = flag]

LegacyFlagLedgers ==
    {TxnId(cShell) :> LegacyFlagRow(cShell, f) @@ TxnId(p) :> LegacyFlagRow(p, g) :
        f \in LegacyFlags \ {0}, g \in LegacyFlags, p \in {cPayroll, cCardSmall}}

InitLegacy ==
    /\ transactions \in LegacyFlagLedgers
    /\ csv = NoCsv
    /\ file = <<>>
    /\ clock = 0
    /\ ingested = 0
    /\ before = NoSnapshot
    /\ last = NoCall
    /\ conns = NoConns

NextLegacy ==
    \/ \E id \in TargetIds, override_type \in OverrideTypes, override_category \in OverrideCategories :
            apply_manual_override(id, override_type, "User manually included", override_category)
    \/ \E id \in TargetIds : remove_manual_override(id)
    \/ \E id \in TargetIds, exclude_from_budget \in FlagInputs :
            update_transaction_override(id, exclude_from_budget, "None", "None")

SpecLegacy == InitLegacy /\ [][NextLegacy]_vars


(***************************************************************************)
(* Upload of one file into an empty ledger: process_csv_file, then         *)
(* insert_transactions on what it returned.                                *)
(***************************************************************************)
InitUpload ==
    /\ transactions = EmptyTable
    /\ csv \in UploadedCsvs
    /\ file = <<>>
    /\ clock = 0
    /\ ingested = 0
    /\ before = NoSnapshot
    /\ last = NoCall
    /\ conns = NoConns

NextUpload ==
    \/ process_csv_file
    \/ insert_transactions

SpecUpload == InitUpload /\ [][NextUpload]_vars


(***************************************************************************)
(* Two insert_transactions calls on the same batch at the same time, each  *)
(* on its own sqlite3 connection.  A connection reads the committed rows   *)
(* and its own uncommitted ones.  Its first INSERT opens a transaction and *)
(* takes the write lock of the file, which it keeps until __exit__ commits *)
(* or the call raises.  An INSERT that finds the lock taken waits; the     *)
(* wait ends when the lock is released or, after the connection's timeout, *)
(* with OperationalError (database is locked).  id is the PRIMARY KEY: an  *)
(* INSERT of an id that is committed raises IntegrityError.  An exception  *)
(* leaves the with-block, and __exit__ closes without commit.              *)
(***************************************************************************)
Callers == {1, 2}

Conn(pc, i, new_count, pending, ret) ==
    [pc |-> pc, i |-> i, new_count |-> new_count, pending |-> pending, ret |-> ret]

\* the write lock is held by the connection that has uncommitted rows
Writing(c) == conns[c].pending # EmptyTable

LockFree(c) == \A d \in Callers \ {c} : ~Writing(d)

\* with get_connection() as conn
Enter(c) ==
    /\ conns[c].pc = "start"
    /\ conns' = [conns EXCEPT ![c].pc = "select"]
    /\ UNCHANGED <<transactions, clock, csv, file, ingested, before, last>>

\* the rows SELECT sees on connection c
Visible(c) == conns[c].pending @@ transactions

\* validate_transaction, generate_transaction_id and the SELECT of one pass
\* of the loop
Select(c) ==
    /\ conns[c].pc = "select"
    /\ conns[c].i <= Len(file)
    /\ conns' = [conns EXCEPT
            ![c].pc = IF validate_transaction(file[conns[c].i])
                         /\ ~RowExists(Visible(c), TxnId(file[conns[c].i]))
                      THEN "insert" ELSE "select",
            ![c].i = IF validate_transaction(file[conns[c].i])
                        /\ ~RowExists(Visible(c), TxnId(file[conns[c].i]))
                     THEN @ ELSE @ + 1]
    /\ UNCHANGED <<transactions, clock, csv, file, ingested, before, last>>

\* what the INSERT of candidate txn does on connection c once it has the lock
Inserted(c, txn) ==
    IF RowExists(transactions, TxnId(txn))
    THEN Conn("raised", conns[c].i, conns[c].new_count, EmptyTable, "IntegrityError: UNIQUE")
    ELSE IF IsNaN(txn.amount)
    THEN Conn("raised", conns[c].i, conns[c].new_count, EmptyTable, "IntegrityError: NOT NULL")
    ELSE Conn("select", conns[c].i + 1, conns[c].new_count + 1,
              conns[c].pending @@ (TxnId(txn) :> InsertedRow(txn, clock)), "none")

\* conn.execute("INSERT INTO transactions ...") with the lock free or held
\* by this connection
Insert(c) ==
    /\ conns[c].pc = "insert"
    /\ LockFree(c)
    /\ conns' = [conns EXCEPT ![c] = Inserted(c, file[conns[c].i])]
    /\ UNCHANGED <<transactions, clock, csv, file, ingested, before, last>>

\* the INSERT has waited for the lock for the timeout of the connection
Locked(c) ==
    /\ conns[c].pc = "insert"
    /\ ~LockFree(c)
    /\ conns' = [conns EXCEPT
            ![c] = Conn("raised", conns[c].i, conns[c].new_count, EmptyTable,
                        "OperationalError: database is locked")]
    /\ UNCHANGED <<transactions, clock, csv, file, ingested, before, last>>

\* __exit__ without an exception: commit, close, return new_count
Exit(c) ==
    /\ conns[c].pc = "select"
    /\ conns[c].i > Len(file)
    /\ transactions' = conns[c].pending @@ transactions
    /\ conns' = [conns EXCEPT
            ![c] = Conn("returned", conns[c].i, conns[c].new_count, EmptyTable, "returned")]
    /\ UNCHANGED <<clock, csv, file, ingested, before, last>>

ConcurrentFiles == Batches({cShell, cEpay, cAmazon, cBadDate}, MaxBatch) \ {<<>>}

InitConcurrent ==
    /\ transactions \in {EmptyTable, TxnId(cEpay) :> InsertedRow(cEpay, 0)}
    /\ csv = NoCsv
    /\ file \in ConcurrentFiles
    /\ clock = 1
    /\ ingested = 0
    /\ before = NoSnapshot
    /\ last = NoCall
    /\ conns = [c \in Callers |-> Conn("start", 1, 0, EmptyTable, "none")]

NextConcurrent ==
    \E c \in Callers :
        \/ Enter(c)
        \/ Select(c)
        \/ Insert(c)
        \/ Locked(c)
        \/ Exit(c)

SpecConcurrent == InitConcurrent /\ [][NextConcurrent]_vars


(***************************************************************************)
(* test_auto_categorization_logic: _auto_categorize_bank is called on its  *)
(* own and what it returns is compared with a category name.  A Python     *)
(* value carries its type: a tuple is equal to no str.                     *)
(***************************************************************************)
PyTuple(items) == [type |-> "tuple", items |-> items]
PyStr(value) == [type |-> "str", value |-> value]

\* the six cases of the test: description, expected_category
test_cases ==
    {<<<<"S", "H", "E", "L", "L", " ", "G", "A", "S", " ", "S", "T", "A", "T", "I", "O", "N">>, "Automotive">>,
     <<<<"G", "R", "O", "C", "E", "R", "Y", " ", "S", "T", "O", "R", "E">>, "Groceries">>,
     <<<<"S", "T", "A", "R", "B", "U", "C", "K", "S", " ", "C", "O", "F", "F", "E", "E">>, "Food & drink">>,
     <<<<"P", "E", "T", "C", "O", " ", "P", "E", "T", " ", "S", "T", "O", "R", "E">>, "Pumpkin">>,
     <<<<"D", "I", "R", "E", "C", "T", "D", "E", "P", " ", "P", "A", "Y", "R", "O", "L", "L">>, "Income">>,
     <<<<"R", "A", "N", "D", "O", "M", " ", "M", "E", "R", "C", "H", "A", "N", "T">>, "Other">>}

CategorizedDescriptions ==
    {t[1] : t \in test_cases}
    \cup {DESC_EPAY, DESC_XFER, DESC_AUTO_PMT,
          <<"A", "T", "M", " ", "W", "I", "T", "H", "D", "R", "A", "W", "A", "L">>,
          <<"E", "L", "E", "C", "T", "R", "I", "C", " ", "C", "O", "M", "P", "A", "N", "Y">>,
          <<"F", "a", "r", "m", "e", "r", "s", " ", "M", "a", "r", "k", "e", "t", " ", "A", "u", "t", "o">>,
          <<"W", "A", "T", "E", "R", " ", "P", "A", "R", "K", " ", "C", "O", "F", "F", "E", "E">>,
          <<"V", "E", "T", " ", "A", "N", "D", " ", "A", "T", "M">>}

CategorizedTypes == {TYPE_DEBIT, TYPE_CREDIT, Text(<<"D", "I", "R", "E", "C", "T", "D", "E", "P">>)}

CategorizedAmounts == {F(-5000), F(0), F(5000)}

\* category = parser._auto_categorize_bank(txn_type, description, amount)
test_auto_categorization_logic(txn_type, description, amount) ==
    /\ clock < MaxClock
    /\ last' = Call("_auto_categorize_bank",
                    PyTuple(auto_categorize_bank(txn_type, description, amount)), 0,
                    [txn_type |-> txn_type, description |-> description, amount |-> amount])
    /\ clock' = clock + 1
    /\ UNCHANGED <<transactions, csv, file, ingested, before, conns>>

InitCategorize ==
    /\ transactions = EmptyTable
    /\ csv = NoCsv
    /\ file = <<>>
    /\ clock = 0
    /\ ingested = 0
    /\ before = NoSnapshot
    /\ last = NoCall
    /\ conns = NoConns

NextCategorize ==
    \E txn_type \in CategorizedTypes, description \in CategorizedDescriptions,
       amount \in CategorizedAmounts :
        test_auto_categorization_logic(txn_type, description, amount)

SpecCategorize == InitCategorize /\ [][NextCategorize]_vars


(***************************************************************************)
(* Vocabulary of the properties.                                           *)
(***************************************************************************)
Stored == DOMAIN transactions

InBudgetSet(id) ==
    \E y \in Years, m \in Months : id \in get_budget_transactions(transactions, y, m)

\* the records of a window, read off the dates the model stores
DatesOf(y, m) ==
    IF y = 2024 /\ m = 3 THEN {DATE_MAR}
    ELSE IF y = 2024 /\ m = 4 THEN {DATE_APR}
    ELSE {}

RecordsOf(y, m) == {id \in Stored : transactions[id].date \in DatesOf(y, m)}

NoManualOverride(row) == row.manual_override_type = NULL

\* the automatic/legacy decision of a record
AutomaticExclude(row) ==
    IF row.auto_exclude_reason \in {"credit_card_payment", "account_transfer", "payment"}
    THEN TRUE
    ELSE row.exclude_from_budget = 1

\* C1: a manual include puts the record in the budget set and a manual
\* exclude keeps it out, whatever auto_exclude_reason and exclude_from_budget say.
C1_ManualOverrideWins ==
    \A id \in Stored :
        LET row == transactions[id] IN
        /\ row.manual_override_type = "include"
            => effective_exclude(row) = 0 /\ InBudgetSet(id)
        /\ row.manual_override_type = "exclude"
            => effective_exclude(row) = 1 /\ ~InBudgetSet(id)

C1_Witness ==
    /\ \E id \in Stored :
        /\ transactions[id].manual_override_type = "include"
        /\ transactions[id].auto_exclude_reason # NULL
    /\ \E id \in Stored :
        /\ transactions[id].manual_override_type = "exclude"
        /\ transactions[id].auto_exclude_reason = NULL
        /\ transactions[id].exclude_from_budget = 0

\* C2: without a manual override a record is excluded when it has an
\* auto_exclude_reason and otherwise follows its exclude_from_budget flag; the
\* budget set of a month is exactly its records that are not excluded.
C2_AutomaticFallback ==
    /\ \A id \in Stored :
        NoManualOverride(transactions[id])
            => (effective_exclude(transactions[id]) = 1 <=> AutomaticExclude(transactions[id]))
    /\ \A y \in Years, m \in Months :
        get_budget_transactions(transactions, y, m) =
            {id \in RecordsOf(y, m) :
                IF transactions[id].manual_override_type = "include" THEN TRUE
                ELSE IF transactions[id].manual_override_type = "exclude" THEN FALSE
                ELSE ~AutomaticExclude(transactions[id])}

C2_Witness ==
    /\ \E id \in Stored :
        /\ NoManualOverride(transactions[id])
        /\ transactions[id].auto_exclude_reason = NULL
        /\ transactions[id].exclude_from_budget = 0
        /\ InBudgetSet(id)
    /\ \E id \in Stored :
        /\ NoManualOverride(transactions[id])
        /\ transactions[id].auto_exclude_reason # NULL
        /\ ~InBudgetSet(id)


FileIds == {TxnId(file[i]) : i \in {j \in 1..Len(file) : validate_transaction(file[j])}}

\* C3: once insert_transactions(file) has returned, every later
\* insert_transactions(file) returns 0 and leaves every stored row as it was.
C3_ReingestionIdempotent ==
    [][(ingested > 0 /\ insert_transactions)
        => (last'.ret = "returned" /\ last'.count = 0 /\ transactions' = transactions)]_vars

C3_Witness ==
    /\ ingested > 1
    /\ last.op = "insert_transactions"
    /\ \E id \in Stored \cap FileIds : transactions[id].manual_override_type # NULL

NewIds == DOMAIN transactions' \ DOMAIN transactions

Invalid(txn) ==
    \/ \E field \in {"date", "description", "amount", "account"} :
        ~Has(txn, field) \/ (field # "amount" /\ txn[field] = <<>>)
    \/ txn.amount.form \in {"garbage", "nan"}
    \/ Abs(txn.amount.cents) > OneMillion
    \/ txn.date \in {DATE_SLASH, DATE_SHORT}
    \/ txn.description = DESC_BLANK

NotInvalid(txn) == ~Invalid(txn)

\* C4: insert_transactions skips every invalid candidate without raising and
\* never stores it, goes on with the other candidates as if the invalid ones
\* were not in the batch, and returns the number of rows it added.
C4_InvalidSkipped ==
    [][insert_transactions =>
        /\ last'.ret = "returned"
        /\ \A id \in NewIds : \E i \in 1..Len(file) : NotInvalid(file[i]) /\ TxnId(file[i]) = id
        /\ transactions' =
            InsertLoop(transactions, SelectSeq(file, NotInvalid), 1, 0, clock).rows
        /\ last'.count = Cardinality(NewIds)]_vars

WellFormedButAmount(txn) ==
    /\ Has(txn, "date") /\ txn.date = DATE_MAR
    /\ Has(txn, "description") /\ txn.description = DESC_SHELL
    /\ Has(txn, "account") /\ txn.account = ACCT_BANK
    /\ Has(txn, "amount")

NumericWithinLimit(a) ==
    /\ a.form \in {"int", "float", "padded"}
    /\ Abs(a.cents) <= OneMillion

\* C5: a candidate that is well-formed but for its amount is stored if and
\* only if the amount is numeric with magnitude at most 1,000,000.
C5_AmountBoundary ==
    [][insert_transactions =>
        \A i \in 1..Len(file) :
            WellFormedButAmount(file[i]) =>
                (TxnId(file[i]) \in DOMAIN transactions' <=> NumericWithinLimit(file[i].amount))]_vars


ValidOverride(override_type, override_category) ==
    override_type \in {"include", "exclude"} /\ override_category \in {"spending", "income"}

\* C6: apply_manual_override with a type outside {include, exclude} or a
\* category outside {spending, income} raises and leaves every row as it was.
C6_InvalidOverrideRejected ==
    [][\A id \in TargetIds, override_type \in TypeInputs, reason \in ReasonInputs,
          override_category \in OverrideCategoryInputs :
        (/\ last'.op = "apply_manual_override"
         /\ ~ValidOverride(override_type, override_category)
         /\ apply_manual_override(id, override_type, reason, override_category))
            => (last'.ret = "ValueError" /\ transactions' = transactions)]_vars

C6_Witness ==
    /\ last.op = "apply_manual_override"
    /\ last.ret = "ValueError"
    /\ Stored # {}

OverrideFields == {"manual_override_type", "override_reason", "override_category", "updated_at"}

\* C7: a successful apply_manual_override changes only manual_override_type,
\* override_reason, override_category and updated_at of the targeted row.
C7_OverrideFrame ==
    [][\A id \in Stored, override_type \in TypeInputs, reason \in ReasonInputs,
          override_category \in OverrideCategoryInputs :
        (/\ last'.op = "apply_manual_override"
         /\ ValidOverride(override_type, override_category)
         /\ apply_manual_override(id, override_type, reason, override_category))
            => /\ DOMAIN transactions' = DOMAIN transactions
               /\ \A other \in Stored \ {id} : transactions'[other] = transactions[other]
               /\ \A column \in DOMAIN transactions[id] \ OverrideFields :
                    transactions'[id][column] = transactions[id][column]
               /\ transactions'[id].manual_override_type = override_type
               /\ transactions'[id].override_reason = reason
               /\ transactions'[id].override_category = override_category]_vars

C7_Witness ==
    /\ last.op = "apply_manual_override"
    /\ last.ret = "True"
    /\ Cardinality(Stored) > 1
    /\ \E id \in Stored :
        /\ transactions[id].manual_override_type = "include"
        /\ transactions[id].auto_exclude_reason # NULL
        /\ transactions[id].updated_at = clock - 1

\* C8: after a successful remove_manual_override, manual_override_type,
\* override_reason and override_category of the row are all unset.
C8_RemoveClearsOverrideFields ==
    [][\A id \in Stored :
        (last'.op = "remove_manual_override" /\ remove_manual_override(id))
            => /\ transactions'[id].manual_override_type = NULL
               /\ transactions'[id].override_reason = NULL
               /\ transactions'[id].override_category = NULL]_vars

\* C9: applying a valid override to a record without one and then removing
\* it puts the record back where it was: same effective_exclude, same
\* membership in the budget, income and pending-income sets.
C9_OverrideRoundTrip ==
    (last.op = "remove_manual_override" /\ last.ret = "True" /\ before # NoSnapshot)
        => /\ Classification(transactions, before.id) = before.class
           /\ (effective_exclude(transactions[before.id]) = 1
                <=> AutomaticExclude(transactions[before.id]))

C9_Witness ==
    /\ last.op = "remove_manual_override"
    /\ last.ret = "True"
    /\ before # NoSnapshot
    /\ before.class.pending
    /\ transactions[before.id].override_category = "income"


\* the four calls that update a stored record by id
UpdateOps == {"update_transaction_category", "update_transaction_override",
              "apply_manual_override", "remove_manual_override"}

\* a step that is one of the four update calls returning (apply_manual_override
\* with valid enum arguments, which is when it does not raise)
UpdateCallReturns == last'.op \in UpdateOps /\ last'.ret # "ValueError"

\* the call returns True exactly for a stored id, and a call on an id that is
\* not stored leaves the store unchanged
FoundIffTrue ==
    /\ last'.ret = Bool(last'.target = "stored")
    /\ last'.target = "missing" => transactions' = transactions

\* a step that is update_transaction_override given no field to update
NoFieldCall ==
    /\ last'.op = "update_transaction_override"
    /\ \E id \in TargetIds : update_transaction_override(id, "None", "None", "None")

\* C10 as stated: each of the four update calls returns False and changes
\* nothing for an id that is not stored, and returns True for a stored id.
C10_FoundIffTrue == [][UpdateCallReturns => FoundIffTrue]_vars

\* C10 as amended: the same, except that update_transaction_override given
\* no field to update returns False also for a stored id, and writes nothing.
C10_NotFoundIsFalse ==
    [][UpdateCallReturns =>
         IF NoFieldCall
         THEN last'.ret = "False" /\ transactions' = transactions
         ELSE FoundIffTrue]_vars

C10_Witness ==
    /\ last.op = "apply_manual_override"
    /\ last.ret = "False"
    /\ last.target = "missing"
    /\ Stored # {}
    /\ \A id \in Stored : transactions[id].manual_override_type = NULL


\* the two calls through which a user edits a category
CategoryEdits == {"update_transaction_category", "update_transaction_override"}

RECURSIVE TotalOf(_)
TotalOf(ids) ==
    IF ids = {} THEN 0
    ELSE LET id == CHOOSE x \in ids : TRUE IN transactions[id].amount + TotalOf(ids \ {id})

PassesWhitelist(row) ==
    \/ \E word \in income_patterns : Contains(Upper(row.description), word)
    \/ /\ Contains(Upper(row.account), <<"C", "R", "E", "D", "I", "T">>)
       /\ row.amount < 100 * 100

MarkedIncome(row) ==
    row.manual_override_type = "include" /\ row.override_category = "income"

IncomeRule(y, m) ==
    {id \in RecordsOf(y, m) :
        /\ InBudgetSet(id)
        /\ transactions[id].amount > 0
        /\ PassesWhitelist(transactions[id]) \/ MarkedIncome(transactions[id])}

\* C12: the income set of a month is exactly its budget-set records with a
\* positive amount that pass the income whitelist or carry an include override
\* tagged income, and the income total is the sum of their amounts, each
\* counted once.
C12_IncomeSetRule ==
    \A y \in Years, m \in Months :
        /\ get_filtered_income_transactions(transactions, y, m) = IncomeRule(y, m)
        /\ get_calculation_breakdown(transactions, y, m).final_totals.income
                = TotalOf(IncomeRule(y, m))

C12_Witness ==
    /\ \E id \in Stored :
        /\ PassesWhitelist(transactions[id])
        /\ MarkedIncome(transactions[id])
        /\ \E y \in Years, m \in Months :
                id \in get_filtered_income_transactions(transactions, y, m)
    /\ \E id \in Stored :
        /\ transactions[id].amount > 0
        /\ InBudgetSet(id)
        /\ \A y \in Years, m \in Months :
                id \notin get_filtered_income_transactions(transactions, y, m)


\* the income and pending-income sets of a window split its positive budget records
IncomePartition(rows, y, m) ==
    LET income == get_filtered_income_transactions(rows, y, m)
        pending == get_pending_income_overrides(rows, y, m)
    IN  /\ income \cap pending = {}
        /\ income \cup pending =
                {id \in get_budget_transactions(rows, y, m) : rows[id].amount > 0}

\* C13: in every ledger state and window the income set and the pending set
\* are disjoint and together are the positive records of the budget set; an
\* include/income override on a pending candidate moves it to the income set.
C13_IncomePendingPartition ==
    /\ [](\A y \in Years, m \in Months : IncomePartition(transactions, y, m))
    /\ [][last'.op = "apply_manual_override" =>
            \A y \in Years, m \in Months :
                \A id \in get_pending_income_overrides(transactions, y, m) :
                    (\E reason \in ReasonInputs :
                        apply_manual_override(id, "include", reason, "income"))
                        => /\ id \in get_filtered_income_transactions(transactions', y, m)
                           /\ id \notin get_pending_income_overrides(transactions', y, m)]_vars

C13_Witness ==
    /\ last.op = "apply_manual_override"
    /\ last.ret = "True"
    /\ before # NoSnapshot
    /\ before.class.pending
    /\ MarkedIncome(transactions[before.id])
    /\ \E y \in Years, m \in Months :
            before.id \in get_filtered_income_transactions(transactions, y, m)


\* C14: in every ledger state and window the spending, income and net of
\* final_totals of get_calculation_breakdown equal those get_household_finances
\* returns, and in both net is income minus spending.
C14_BreakdownReconciles ==
    \A y \in Years, m \in Months :
        LET final_totals == get_calculation_breakdown(transactions, y, m).final_totals
            household == get_household_finances(transactions, y, m)
        IN  /\ final_totals.spending = household.spending
            /\ final_totals.income = household.income
            /\ final_totals.net = household.net
            /\ final_totals.net = final_totals.income - final_totals.spending
            /\ household.net = household.income - household.spending


(***************************************************************************)
(* Vocabulary of the properties of an upload.                              *)
(***************************************************************************)
\* process_csv_file has just returned `file` for `csv`
Parsed == last.op = "process_csv_file"

UploadRows == csv.df.rows

\* a field that holds a value: a number, or text that is not blank
NonEmpty(cell) ==
    \/ cell.kind = "float"
    \/ cell.kind = "str" /\ Strip(cell.text) # <<>>

\* a field that holds a number, as a float or as text float() reads
IsNumeric(cell) ==
    \/ cell.kind = "float"
    \/ /\ cell.kind = "str"
       /\ float_of(cell).ok
       /\ ~IsNaN(float_of(cell).amount)

ValueOf(cell) == float_of(cell).amount.cents

DescriptionHas(cell, words) == cell.kind = "str" /\ ContainsAny(Upper(cell.text), words)

AmountAndReason(txns) ==
    [i \in 1..Len(txns) |->
        [amount |-> txns[i].amount.cents,
         auto_exclude_reason |-> txns[i].auto_exclude_reason]]

\* what card-style rows with a date and a numeric amount are to produce
RECURSIVE CardExpected(_)
CardExpected(rows) ==
    IF rows = <<>> THEN <<>>
    ELSE (IF DescriptionHas(Head(rows)[2], payment_words) /\ ValueOf(Head(rows)[4]) > 0
          THEN <<>>
          ELSE <<[amount |-> ValueOf(Head(rows)[4]), auto_exclude_reason |-> NULL]>>)
         \o CardExpected(Tail(rows))

\* C15: of the card-style rows with a date and a numeric amount, those with
\* payment vocabulary in the description and a positive amount produce no
\* candidate, and every other one produces exactly one candidate with the
\* amount as it is and no auto_exclude_reason.
C15_CardRepaymentsDropped ==
    (/\ Parsed
     /\ csv.df.columns = CardColumns
     /\ \A i \in 1..Len(UploadRows) :
            ~isna(UploadRows[i][1]) /\ IsNumeric(UploadRows[i][4]))
        => AmountAndReason(file) = CardExpected(UploadRows)

Signs(txns) ==
    [i \in 1..Len(txns) |->
        IF IsNaN(txns[i].amount) THEN "nan"
        ELSE IF txns[i].amount.cents < 0 THEN "negative"
        ELSE IF txns[i].amount.cents > 0 THEN "positive"
        ELSE "zero"]

\* what ledger-style rows with a date are to produce
RECURSIVE LedgerExpected(_)
LedgerExpected(rows) ==
    IF rows = <<>> THEN <<>>
    ELSE (IF NonEmpty(Head(rows)[4]) THEN <<"negative">>
          ELSE IF NonEmpty(Head(rows)[5]) THEN <<"positive">>
          ELSE <<>>)
         \o LedgerExpected(Tail(rows))

\* C16: of the ledger-style rows with a date, one with a non-empty debit
\* produces a candidate with a negative amount, one with an empty debit and a
\* non-empty credit a candidate with a positive amount, one with neither no
\* candidate, whatever the other rows of the file are.
C16_LedgerAmountSign ==
    (/\ Parsed
     /\ csv.df.columns = BankColumns
     /\ \A i \in 1..Len(UploadRows) : ~isna(UploadRows[i][1]))
        => Signs(file) = LedgerExpected(UploadRows)

\* the upload is in one of the two layouts whose rows go through
\* _auto_categorize_bank
LedgerStyle == detect_format(csv.df) \in {"bank", "bank_no_headers"}

Candidates == {file[i] : i \in 1..Len(file)}

TransferVocabulary(txn) == ContainsAny(Upper(txn.description), transfer_keywords)

\* the reason the vocabulary of the description selects
TransferReason(txn) ==
    IF Contains(Upper(txn.description), <<"C", "R", "E", "D", "I", "T">>)
       \/ Contains(Upper(txn.description), <<"C", "A", "R", "D">>)
    THEN "credit_card_payment"
    ELSE IF Contains(Upper(txn.description), <<"T", "R", "A", "N", "S", "F", "E", "R">>)
    THEN "account_transfer"
    ELSE "payment"

ReasonIffTransfers ==
    \A txn \in Candidates : txn.auto_exclude_reason # NULL <=> txn.category = "Transfers"

\* the candidate's row is tested for income before the transfer vocabulary:
\* its type is DIRECTDEP or CREDIT (the type opens raw_description in the
\* layout with a header), it mentions payroll, or its amount is positive
IncomeFirst(txn) ==
    \/ /\ detect_format(csv.df) = "bank"
       /\ \/ StartsWith(txn.raw_description, <<"D", "I", "R", "E", "C", "T", "D", "E", "P", ":", " ">>)
          \/ StartsWith(txn.raw_description, <<"C", "R", "E", "D", "I", "T", ":", " ">>)
    \/ Contains(Upper(txn.description), <<"P", "A", "Y", "R", "O", "L", "L">>)
    \/ Positive(txn.amount)

\* C17 as stated: every ledger-style candidate whose description holds
\* transfer vocabulary is in category Transfers with the reason its
\* description selects, every other one has no reason, and a reason is
\* present exactly when the category is Transfers.
C17_TransferTaggingByVocabulary ==
    Parsed =>
        /\ LedgerStyle =>
              \A txn \in Candidates :
                  IF TransferVocabulary(txn)
                  THEN txn.category = "Transfers" /\ txn.auto_exclude_reason = TransferReason(txn)
                  ELSE txn.auto_exclude_reason = NULL
        /\ ReasonIffTransfers

\* C17 amended: a ledger-style candidate that passes an income test is in
\* category Income with no reason whatever its description; of the others,
\* those with transfer vocabulary are in category Transfers with the reason
\* the description selects and the rest have no reason; a reason is present
\* exactly when the category is Transfers.
C17_TransferTaggingAfterIncome ==
    Parsed =>
        /\ LedgerStyle =>
              \A txn \in Candidates :
                  IF IncomeFirst(txn)
                  THEN txn.category = "Income" /\ txn.auto_exclude_reason = NULL
                  ELSE IF TransferVocabulary(txn)
                  THEN txn.category = "Transfers" /\ txn.auto_exclude_reason = TransferReason(txn)
                  ELSE txn.auto_exclude_reason = NULL /\ txn.category # "Transfers"
        /\ ReasonIffTransfers

\* a file with a tagged transfer and a deposit that carries transfer vocabulary
C17_Witness ==
    /\ Parsed
    /\ LedgerStyle
    /\ \E txn \in Candidates :
          TransferVocabulary(txn) /\ ~IncomeFirst(txn) /\ txn.auto_exclude_reason = "account_transfer"
    /\ \E txn \in Candidates :
          TransferVocabulary(txn) /\ IncomeFirst(txn) /\ txn.category = "Income"

\* insert_transactions has just returned after writing the parsed file
Upserted == last.op = "insert_transactions" /\ last.ret = "returned"

\* the stored record has the candidate's date, description, amount and account
SameRecord(row, txn) ==
    /\ row.date = txn.date
    /\ row.description = txn.description
    /\ ~IsNaN(txn.amount) /\ row.amount = txn.amount.cents
    /\ row.account = txn.account

\* the stored record is the one written for the candidate
StoredFrom(row, txn) == SameRecord(row, txn) /\ row.category = txn.category

IsCardPaymentCandidate(txn) ==
    /\ txn.description = DESC_EPAY
    /\ txn.amount = F(-50000)
    /\ txn.auto_exclude_reason = "credit_card_payment"

\* C18: after a parsed ledger-style file is upserted, every stored record
\* carries the auto_exclude_reason the parser computed for it and, when that
\* reason is present and the record has no manual override, is effectively
\* excluded and outside the budget set; the 'CREDIT CRD EPAY' -500.00
\* candidate is stored, and ingested alone it leaves the spending of March
\* 2024 at zero.
C18_ParserReasonStored ==
    Upserted =>
        /\ \A id \in Stored : \E i \in 1..Len(file) :
              /\ StoredFrom(transactions[id], file[i])
              /\ transactions[id].auto_exclude_reason = file[i].auto_exclude_reason
              /\ file[i].auto_exclude_reason # NULL
                    => effective_exclude(transactions[id]) = 1 /\ ~InBudgetSet(id)
        /\ \A i \in 1..Len(file) :
              IsCardPaymentCandidate(file[i])
                  => \E id \in Stored : SameRecord(transactions[id], file[i])
        /\ (UploadRows = <<bankEpay>> /\ file # <<>>)
              => get_calculation_breakdown(transactions, 2024, 3).final_totals.spending = 0

\* the upload whose only row is 3/5/2024, DEBIT, SHELL GAS #123, debit 45.00
ShellUpload == [df |-> [columns |-> BankColumns, rows |-> <<bankShell>>], account_name |-> ACCT_BANK]

\* C19: once the single ledger-style row (3/5/2024, DEBIT, 'SHELL GAS #123',
\* debit '45.00') is parsed and upserted into the empty ledger, the ledger
\* holds one record with amount -45.00, category Automotive and no
\* auto_exclude_reason, and get_spending_by_category(2024, 3) is the single
\* row (Automotive, 45.00, 1).
C19_ShellScenario ==
    (csv = ShellUpload /\ Upserted /\ file # <<>>) =>
        /\ Cardinality(Stored) = 1
        /\ \A id \in Stored :
              /\ transactions[id].date = DATE_MAR
              /\ transactions[id].amount = -4500
              /\ transactions[id].category = "Automotive"
              /\ transactions[id].auto_exclude_reason = NULL
        /\ get_spending_by_category(transactions, 2024, 3)
              = <<[category |-> "Automotive", total_spent |-> 4500, transaction_count |-> 1]>>

C19_Witness ==
    /\ csv = ShellUpload
    /\ Upserted
    /\ file # <<>>
    /\ last.count = 1
    /\ Len(get_spending_by_category(transactions, 2024, 3)) = 1

\* the candidates of the rows of the upload read one at a time, in order
RECURSIVE RowByRow(_, _, _)
RowByRow(columns, rows, account_name) ==
    IF rows = <<>> THEN <<>>
    ELSE process_csv([columns |-> columns, rows |-> <<Head(rows)>>], account_name)
         \o RowByRow(columns, Tail(rows), account_name)

\* C20: what process_csv_file returns for a file is what it returns for the
\* rows of the file read one at a time: a row that yields no candidate takes
\* no candidate of another row with it; a layout that is not recognized
\* yields the empty list.
C20_MalformedRowSkipped ==
    Parsed =>
        /\ file = RowByRow(csv.df.columns, UploadRows, csv.account_name)
        /\ detect_format(csv.df) = "unknown" => file = <<>>


(***************************************************************************)
(* Vocabulary of the properties of the calls that run side by side.        *)
(***************************************************************************)
BothEnded == \A c \in Callers : conns[c].pc \in {"returned", "raised"}

ValidIds == {TxnId(file[i]) : i \in {j \in 1..Len(file) : validate_transaction(file[j])}}

\* the records added to the ledger the two calls started on
AddedIds == {id \in Stored : transactions[id].created_at = clock}

\* the new_count a call returned
AddedBy(c) == IF conns[c].pc = "returned" THEN conns[c].new_count ELSE 0

\* C21: when two insert_transactions calls on the same batch have both
\* ended, however their steps were interleaved, neither has raised because
\* a row already existed, every valid record of the batch is stored, and
\* the new_counts returned add up to the number of valid records of the
\* batch that were not stored before.
C21_ConcurrentIngestionSafe ==
    (conns # NoConns /\ BothEnded) =>
        /\ \A c \in Callers : conns[c].ret # "IntegrityError: UNIQUE"
        /\ ValidIds \subseteq Stored
        /\ AddedBy(1) + AddedBy(2) = Cardinality(AddedIds)


\* the facts of a record fixed at its insertion
Facts(row) ==
    [date |-> row.date, description |-> row.description,
     amount |-> row.amount, account |-> row.account]

\* C22: no step of the ledger (upsert, field update, category edit,
\* apply_manual_override, remove_manual_override, reclassification) removes
\* a stored record or changes its id, date, description, amount or account.
C22_ImmutableFacts ==
    [][\A id \in Stored :
          /\ id \in DOMAIN transactions'
          /\ Facts(transactions'[id]) = Facts(transactions[id])]_vars

\* a stored record has just been through an update call
C22_Witness ==
    /\ last.op \in UpdateOps
    /\ last.target = "stored"
    /\ last.ret = "True"
    /\ Stored # {}


\* the negative-amount records of the budget set of a window
BudgetSpending(y, m) ==
    {id \in get_budget_transactions(transactions, y, m) : transactions[id].amount < 0}

\* the per-category rows over a set of records
CategoryRows(ids) ==
    {[category |-> c,
      total_spent |-> Abs(TotalOf({id \in ids : transactions[id].category = c})),
      transaction_count |-> Cardinality({id \in ids : transactions[id].category = c})] :
        c \in {transactions[id].category : id \in ids}}

RECURSIVE TotalSpent(_)
TotalSpent(report) ==
    IF report = <<>> THEN 0 ELSE Head(report).total_spent + TotalSpent(Tail(report))

Descending(report) ==
    \A i, j \in 1..Len(report) : i < j => report[i].total_spent >= report[j].total_spent

\* C23: for every window, get_spending_by_category returns one row per
\* category over the negative-amount records of the budget set, with the
\* sum of their absolute amounts and their number, sorted by total
\* descending, and the totals add up to the spending total of the window.
C23_CategorySpendingOverBudgetSet ==
    \A y \in Years, m \in Months :
        /\ {get_spending_by_category(transactions, y, m)[i] :
                i \in 1..Len(get_spending_by_category(transactions, y, m))}
              = CategoryRows(BudgetSpending(y, m))
        /\ Len(get_spending_by_category(transactions, y, m))
              = Cardinality(CategoryRows(BudgetSpending(y, m)))
        /\ Descending(get_spending_by_category(transactions, y, m))
        /\ TotalSpent(get_spending_by_category(transactions, y, m))
              = get_calculation_breakdown(transactions, y, m).final_totals.spending


(***************************************************************************)
(* Vocabulary of the properties of the category table.                     *)
(***************************************************************************)
Table == 1..Len(STANDARD_CATEGORIES)

IsKeywordOf(key, i) == key \in STANDARD_CATEGORIES[i].keywords

HoldsKeywordOf(key, i) == \E w \in STANDARD_CATEGORIES[i].keywords : Contains(key, w)

\* the two passes of the lookup relate key and result
TwoPass(key, result) ==
    /\ \A i \in Table :
          (IsKeywordOf(key, i) /\ \A j \in Table : j < i => ~IsKeywordOf(key, j))
              => result = STANDARD_CATEGORIES[i].standard
    /\ (\A i \in Table : ~IsKeywordOf(key, i)) =>
          \A i \in Table :
              (HoldsKeywordOf(key, i) /\ \A j \in Table : j < i => ~HoldsKeywordOf(key, j))
                  => result = STANDARD_CATEGORIES[i].standard
    /\ (\A i \in Table : ~IsKeywordOf(key, i) /\ ~HoldsKeywordOf(key, i)) => result = "Other"

\* a card file of one row whose description names no pet shop: the
\* candidate's category is normalize_category of the row's Category field
CategoryNormalized ==
    /\ Parsed
    /\ csv.df.columns = CardColumns
    /\ Len(UploadRows) = 1
    /\ Len(file) = 1
    /\ ~DescriptionHas(UploadRows[1][2], pet_words)

\* C24: the category of a candidate is found from the lower-cased, trimmed
\* institution category in two passes: the first table entry that has it as
\* a keyword, else the first table entry with a keyword it contains, else
\* Other; an empty or missing institution category gives Other; the
\* examples of the tests give the categories the tests name.
C24_NormalizeCategoryTwoPass ==
    CategoryNormalized =>
        /\ UploadRows[1][3].kind = "str" /\ UploadRows[1][3].text # <<>>
              => TwoPass(Strip(Lower(UploadRows[1][3].text)), file[1].category)
        /\ (isna(UploadRows[1][3]) \/ UploadRows[1][3] = Text(<<>>))
              => file[1].category = "Other"
        /\ \A e \in CategoryExamples :
              UploadRows[1][3] = Text(e[1]) => file[1].category = e[2]

\* an institution category that is a keyword of one entry and holds a
\* keyword of an earlier one
C24_Witness ==
    /\ CategoryNormalized
    /\ UploadRows[1][3] = Text(<<"f", "o", "o", "d", " ", "s", "t", "o", "r", "e">>)
    /\ file[1].category = "Groceries"


(***************************************************************************)
(* Vocabulary of the properties of _auto_categorize_bank called alone.     *)
(***************************************************************************)
Categorized == last.op = "_auto_categorize_bank"

\* the call was made with type DEBIT and a negative amount
DebitCall == Categorized /\ last.target.txn_type = TYPE_DEBIT /\ last.target.amount.cents < 0

\* the keyword groups of the spending categories, in the order they are tried
KeywordGroups ==
    <<[category |-> "Groceries",
       words |-> {<<"G", "R", "O", "C", "E", "R", "Y">>, <<"M", "A", "R", "K", "E", "T">>,
                  <<"F", "O", "O", "D">>}],
      [category |-> "Automotive",
       words |-> {<<"G", "A", "S">>, <<"S", "H", "E", "L", "L">>, <<"E", "X", "X", "O", "N">>,
                  <<"B", "P">>, <<"A", "U", "T", "O", "M", "O", "T", "I", "V", "E">>,
                  <<"A", "U", "T", "O">>}],
      [category |-> "Pumpkin",
       words |-> {<<"V", "E", "T">>, <<"P", "E", "T">>, <<"P", "E", "T", "C", "O">>,
                  <<"P", "E", "T", "S", "M", "A", "R", "T">>}],
      [category |-> "Food & drink",
       words |-> {<<"R", "E", "S", "T", "A", "U", "R", "A", "N", "T">>,
                  <<"C", "O", "F", "F", "E", "E">>,
                  <<"S", "T", "A", "R", "B", "U", "C", "K", "S">>}],
      [category |-> "Other",
       words |-> {<<"A", "T", "M">>, <<"W", "I", "T", "H", "D", "R", "A", "W", "A", "L">>}],
      [category |-> "Bills & utilities",
       words |-> {<<"E", "L", "E", "C", "T", "R", "I", "C">>, <<"U", "T", "I", "L", "I", "T", "Y">>,
                  <<"W", "A", "T", "E", "R">>, <<"I", "N", "T", "E", "R", "N", "E", "T">>}]>>

InGroup(description, g) == ContainsAny(Upper(description), KeywordGroups[g].words)

\* the category a DEBIT of negative amount is to get
ExpectedCategory(description, category) ==
    IF Contains(Upper(description), <<"P", "A", "Y", "R", "O", "L", "L">>)
    THEN category = "Income"
    ELSE ~ContainsAny(Upper(description), transfer_keywords) =>
        /\ \A g \in 1..Len(KeywordGroups) :
              (InGroup(description, g) /\ \A h \in 1..(g - 1) : ~InGroup(description, h))
                  => category = KeywordGroups[g].category
        /\ (\A g \in 1..Len(KeywordGroups) : ~InGroup(description, g)) => category = "Other"

\* C25: for type DEBIT and a negative amount, what the caller of
\* _auto_categorize_bank holds and compares with a category name is the
\* category: Income for a payroll description, else (no transfer
\* vocabulary) that of the first matching keyword group, else Other; it is
\* equal to the expected name in each case of the test.
C25_CategoryComparedByCaller ==
    DebitCall =>
        /\ last.ret.type = "str"
        /\ ExpectedCategory(last.target.description, last.ret.value)
        /\ \A t \in test_cases :
              last.target.description = t[1] => last.ret = PyStr(t[2])


EngineTotals(y, m) == get_calculation_breakdown(transactions, y, m).final_totals

\* C26: get_monthly_trends returns, and for every month it reports the
\* spending and the income are the spending total and the income total of
\* the override engine for that month, and net is income minus spending.
C26_TrendsFollowEngine ==
    /\ get_monthly_trends(transactions).raised = "none"
    /\ \A row \in get_monthly_trends(transactions).monthly_summary :
          /\ row.spending = EngineTotals(row.year, row.month).spending
          /\ row.income = EngineTotals(row.year, row.month).income
          /\ row.net = row.income - row.spending

\* the column names as the detection compares them
MatchedNames(df) == {Strip(Lower(df.columns[i])) : i \in 1..Len(df.columns)}

\* a month/day/year date: digits, a slash, digits, a slash, digits
ResemblesDate(cell) ==
    \E i, j \in 1..Len(cell) :
        /\ i < j
        /\ cell[i] = "/" /\ cell[j] = "/"
        /\ i - 1 \in 1..2 /\ IsDigits(SubSeq(cell, 1, i - 1))
        /\ j - i - 1 \in 1..2 /\ IsDigits(SubSeq(cell, i + 1, j - 1))
        /\ Len(cell) - j \in {2, 4} /\ IsDigits(SubSeq(cell, j + 1, Len(cell)))

\* the style the ordered rules give a table
OrderedFormat(df) ==
    IF {<<"d", "e", "b", "i", "t">>, <<"c", "r", "e", "d", "i", "t">>} \subseteq MatchedNames(df) THEN "bank"
    ELSE IF /\ <<"a", "m", "o", "u", "n", "t">> \in MatchedNames(df)
            /\ {<<"t", "r", "a", "n", "s", "a", "c", "t", "i", "o", "n", " ", "d", "a", "t", "e">>, <<"t", "r", "a", "n", "s", ".", " ", "d", "a", "t", "e">>} \cap MatchedNames(df) # {}
         THEN "credit_card"
    ELSE IF Len(df.columns) = 5 /\ ResemblesDate(df.columns[1]) THEN "bank_no_headers"
    ELSE "unknown"

\* C27: detection is ordered and the first match wins: debit and credit
\* columns make a table ledger style whatever else it has, else an amount and
\* a transaction-date column make it card style, else five columns of which
\* the first header is a month/day/year date make it headerless, else it is
\* unrecognized; names are compared in lower case and trimmed.
C27_FormatDetectionOrdered ==
    last.op = "process_csv_file" =>
        /\ detect_format(csv.df) = OrderedFormat(csv.df)
        /\ file = IF OrderedFormat(csv.df) = "unknown" THEN <<>>
                  ELSE Returned(ParseLoop(OrderedFormat(csv.df), csv.df, csv.account_name, 1, <<>>))

\* the two lists the controls of a window show for the ledger
Controls(rows, y, m) == override_controls(rows, get_override_candidates(rows, y, m))

Touched(row) == row.manual_override_type # NULL

CouldBeIncluded(rows, y, m) ==
    {id \in DOMAIN rows :
        InMonth(rows[id], y, m) /\ rows[id].auto_exclude_reason # NULL /\ ~Touched(rows[id])}

CouldBeExcluded(rows, y, m) ==
    {id \in DOMAIN rows :
        /\ InMonth(rows[id], y, m)
        /\ rows[id].amount < 0
        /\ rows[id].auto_exclude_reason = NULL
        /\ rows[id].exclude_from_budget = 0
        /\ ~Touched(rows[id])}

CandidatesOf(rows) ==
    UNION {Controls(rows, y, m).could_be_included \cup Controls(rows, y, m).could_be_excluded :
              y \in Years, m \in Months}

CandidatesAsClassified ==
    /\ \A y \in Years, m \in Months :
          /\ Controls(transactions, y, m).could_be_included = CouldBeIncluded(transactions, y, m)
          /\ Controls(transactions, y, m).could_be_excluded = CouldBeExcluded(transactions, y, m)
          /\ Controls(transactions, y, m).could_be_included
                \cap Controls(transactions, y, m).could_be_excluded = {}
    /\ \A id \in CandidatesOf(transactions) : ~Touched(transactions[id])
    /\ last.op = "render_override_controls" =>
          last.ret = Controls(transactions, last.target[1], last.target[2])

CandidatesFollowOverrides ==
    /\ last'.op = "render_override_controls" => transactions' = transactions
    /\ (last'.op = "apply_manual_override" /\ last'.ret = "True") =>
          \A id \in CandidatesOf(transactions) :
              Touched(transactions'[id]) => id \notin CandidatesOf(transactions')
    /\ (last'.op = "remove_manual_override" /\ last'.ret = "True") =>
          \A id \in Stored :
              (Touched(transactions[id]) /\ ~Touched(transactions'[id])) =>
                  (id \in CandidatesOf(transactions') <=>
                      \/ transactions[id].auto_exclude_reason # NULL
                      \/ transactions[id].amount < 0 /\ transactions[id].exclude_from_budget = 0)

\* C28: the candidates of a window are a query of the stored classification:
\* "could be included" is the records with an auto_exclude_reason and no
\* manual override, "could be excluded" the negative records without
\* auto_exclude_reason, legacy flag false and no manual override; the two are
\* disjoint and hold no manually overridden record; a record leaves when a
\* manual override is applied to it and is back when the override is
\* removed; showing the candidates changes no stored record.
C28_OverrideCandidates == []CandidatesAsClassified /\ [][CandidatesFollowOverrides]_vars

\* a payroll deposit, auto-included and untouched, is not offered for exclusion
\* while the untouched fuel purchase beside it is; the controls were shown
C28_Witness ==
    /\ last.op = "render_override_controls"
    /\ last.target = <<2024, 3>>
    /\ TxnId(cPayroll) \in Stored /\ TxnId(cShell) \in Stored
    /\ ~Touched(transactions[TxnId(cPayroll)])
    /\ transactions[TxnId(cPayroll)].exclude_from_budget = 0
    /\ last.ret.could_be_excluded = {TxnId(cShell)}

\* the stored flag is NULL or not of a boolean type
BadFlag(row) == IsFlagNull(row.exclude_from_budget) \/ IsFlagBytes(row.exclude_from_budget)

\* the record is counted like an included one: its window's spending is the
\* negative rows of the budget set, its income the whitelisted positive ones
Counted(id) ==
    \E y \in Years, m \in Months :
        /\ id \in get_budget_transactions(transactions, y, m)
        /\ id \in apply_income_whitelist(transactions, {id})
              => id \in get_filtered_income_transactions(transactions, y, m)

BadFlagReadAsFalse ==
    \A id \in Stored :
        (/\ NoManualOverride(transactions[id])
         /\ transactions[id].auto_exclude_reason = NULL
         /\ BadFlag(transactions[id]))
        => /\ ~normalize_value(transactions[id].exclude_from_budget)
           /\ effective_exclude(transactions[id]) = 0
           /\ InBudgetSet(id)
           /\ Counted(id)

BudgetAndExcludedPartition ==
    \A y \in Years, m \in Months :
        /\ get_budget_transactions(transactions, y, m)
              \cup get_excluded_transactions(transactions, y, m)
           = get_effective_transactions(transactions, y, m)
        /\ get_budget_transactions(transactions, y, m)
              \cap get_excluded_transactions(transactions, y, m) = {}

\* C29: a record without manual override and without auto_exclude_reason
\* whose stored exclude_from_budget is NULL or of an unexpected type is read
\* as not excluded by every classification query: it is in the budget set
\* and counted like an included record, and the budget set and the excluded
\* set of a month partition the month's records.
C29_BadFlagDegradesSafely == BadFlagReadAsFalse /\ BudgetAndExcludedPartition

\* date, description, numeric amount and account of a stored record and of a
\* candidate
KeyOfRow(row) == <<row.date, row.description, row.amount, row.account>>

KeyOfCandidate(txn) == <<txn.date, txn.description, txn.amount.cents, txn.account>>

OneRecordPerKey ==
    \A a, b \in Stored : KeyOfRow(transactions[a]) = KeyOfRow(transactions[b]) => a = b

EveryKeyStored ==
    (last.op = "insert_transactions" /\ last.ret # "IntegrityError") =>
        \A i \in 1..Len(file) :
            validate_transaction(file[i]) =>
                \E id \in Stored : KeyOfRow(transactions[id]) = KeyOfCandidate(file[i])

\* C30: the id is a function of date, description, amount and account alone,
\* so after any upserts the store holds no two records of the same date,
\* description, numeric amount and account, however the amount of a
\* candidate was written (45, 45.0 or "45.00"), and candidates that differ in
\* one of the four values are each stored.
C30_ContentKeyedDeduplication == OneRecordPerKey /\ EveryKeyStored

====
